---- MODULE Spec2Model ----
(***************************************************************************)
(* Token cache, GAQL query executor and response normaliser of             *)
(* utils/google-ads-api.js (the last revision in the file, lines 416-701,  *)
(* with the searchStream revision of lines 128-414 kept beside it for      *)
(* comparison).                                                            *)
(*                                                                         *)
(* Text is modelled at lexeme level: a response body is a sequence of      *)
(* tokens, JSON.parse is a recursive-descent parser over them, and a JS    *)
(* value is a tagged record.  A resource sub-object such as {"id":"1"} is  *)
(* an opaque payload number; payload 0 stands for a falsy value (null, 0,  *)
(* "", false).                                                             *)
(***************************************************************************)
EXTENDS Integers, Sequences, FiniteSets, TLC

(***************************************************************************)
(* Bounds of the model                                                     *)
(***************************************************************************)
\* rows in a logical result set
MaxRows == 2
\* calls started in one behaviour
MaxCalls == 2
\* characters in a token handed to the error logger
MaxTokenLen == 16
\* result rows the adgroups handler groups
MaxAdRows == 2
\* requests the endpoint handlers serve in one behaviour
MaxRequests == 2
\* clock advances in one behaviour
MaxTicks == 1

(***************************************************************************)
(* JS values                                                               *)
(***************************************************************************)
JNull == [t |-> "null"]
JNum == [t |-> "num"]
JArr(items) == [t |-> "arr", items |-> items]
\* f: own properties other than "results"; res: <<>> or <<value of results>>
JObj(f, res) == [t |-> "obj", f |-> f, res |-> res]

NoProps == [k \in {} |-> 0]

(***************************************************************************)
(* Lexemes of a body                                                       *)
(***************************************************************************)
TNl == [k |-> "nl"]
TLb == [k |-> "lb"]
TRb == [k |-> "rb"]
TComma == [k |-> "comma"]
TNull == [k |-> "null"]
TNum == [k |-> "num"]
\* a lexeme no JSON document contains
TJunk == [k |-> "junk"]
\* a complete object literal without a "results" member
TObj(f) == [k |-> "obj", f |-> f]
\* the opening of an object literal up to and including "results":
TObjR(f) == [k |-> "objr", f |-> f]
\* the brace closing an object opened by TObjR
TEnd == [k |-> "end"]

ParseFail == [ok |-> FALSE, val |-> JNull, next |-> 0]

RECURSIVE SkipWs(_, _)
SkipWs(toks, i) ==
  IF i <= Len(toks) /\ toks[i] = TNl THEN SkipWs(toks, i + 1) ELSE i

RECURSIVE ParseValue(_, _)
RECURSIVE ParseItems(_, _, _)
\* one JSON value starting at or after position i
ParseValue(toks, i) ==
  LET j == SkipWs(toks, i) IN
  IF j > Len(toks) THEN ParseFail
  ELSE LET tok == toks[j] IN
    CASE tok.k = "null" -> [ok |-> TRUE, val |-> JNull, next |-> j + 1]
      [] tok.k = "num" -> [ok |-> TRUE, val |-> JNum, next |-> j + 1]
      [] tok.k = "obj" -> [ok |-> TRUE, val |-> JObj(tok.f, <<>>), next |-> j + 1]
      [] tok.k = "objr" ->
           LET r == ParseValue(toks, j + 1) IN
           IF ~r.ok THEN ParseFail
           ELSE LET e == SkipWs(toks, r.next) IN
             IF e <= Len(toks) /\ toks[e] = TEnd
             THEN [ok |-> TRUE, val |-> JObj(tok.f, <<r.val>>), next |-> e + 1]
             ELSE ParseFail
      [] tok.k = "lb" ->
           LET e == SkipWs(toks, j + 1) IN
           IF e <= Len(toks) /\ toks[e] = TRb
           THEN [ok |-> TRUE, val |-> JArr(<<>>), next |-> e + 1]
           ELSE ParseItems(toks, j + 1, <<>>)
      [] OTHER -> ParseFail

\* the elements of an array after "[" or ",", up to and including "]"
ParseItems(toks, i, acc) ==
  LET r == ParseValue(toks, i) IN
  IF ~r.ok THEN ParseFail
  ELSE LET e == SkipWs(toks, r.next) IN
    IF e > Len(toks) THEN ParseFail
    ELSE IF toks[e] = TRb
      THEN [ok |-> TRUE, val |-> JArr(Append(acc, r.val)), next |-> e + 1]
    ELSE IF toks[e] = TComma
      THEN ParseItems(toks, e + 1, Append(acc, r.val))
    ELSE ParseFail

\* JSON.parse(text): exactly one value, white space around it allowed
JSONParse(text) ==
  LET r == ParseValue(text, 1) IN
  IF r.ok /\ SkipWs(text, r.next) = Len(text) + 1
  THEN [ok |-> TRUE, val |-> r.val]
  ELSE [ok |-> FALSE, val |-> JNull]

RECURSIVE JSONStringify(_)
RECURSIVE StringifyItems(_)
\* JSON.stringify(value) without an indent argument
JSONStringify(v) ==
  CASE v.t = "null" -> <<TNull>>
    [] v.t = "num" -> <<TNum>>
    [] v.t = "arr" -> <<TLb>> \o StringifyItems(v.items) \o <<TRb>>
    [] v.t = "obj" ->
         IF v.res = <<>> THEN <<TObj(v.f)>>
         ELSE <<TObjR(v.f)>> \o JSONStringify(v.res[1]) \o <<TEnd>>

StringifyItems(items) ==
  IF items = <<>> THEN <<>>
  ELSE IF Len(items) = 1 THEN JSONStringify(items[1])
  ELSE JSONStringify(items[1]) \o <<TComma>> \o StringifyItems(Tail(items))

RECURSIVE SplitAcc(_, _, _)
SplitAcc(text, cur, acc) ==
  IF text = <<>> THEN Append(acc, cur)
  ELSE IF Head(text) = TNl THEN SplitAcc(Tail(text), <<>>, Append(acc, cur))
  ELSE SplitAcc(Tail(text), Append(cur, Head(text)), acc)

\* text.split("\n").filter(Boolean)
SplitLines(text) == SelectSeq(SplitAcc(text, <<>>, <<>>), LAMBDA l : l # <<>>)

(***************************************************************************)
(* Response normaliser                                                     *)
(***************************************************************************)
RecognizedKeys == {"campaign", "ad_group", "ad_group_ad", "customer_client", "metrics"}

\* <<canonical, alternate>> spellings
AlternateKeys ==
  {<<"ad_group", "adGroup">>, <<"ad_group_ad", "adGroupAd">>,
   <<"customer_client", "customerClient">>}

\* chunk.key is truthy
Truthy(chunk, key) == key \in DOMAIN chunk.f /\ chunk.f[key] # 0

\* chunk.results && Array.isArray(chunk.results)
HasResultsArray(chunk) ==
  chunk.t = "obj" /\ chunk.res # <<>> /\ chunk.res[1].t = "arr"

\* if (!chunk.canonical && chunk.alternate) chunk.canonical = chunk.alternate
NormalizeKeysAlways(chunk) ==
  LET copied == {p \in AlternateKeys : Truthy(chunk, p[2])}
      canon == {p[1] : p \in copied}
      alt(c) == (CHOOSE p \in copied : p[1] = c)[2]
  IN [chunk EXCEPT !.f = [key \in DOMAIN chunk.f \cup canon |->
                            IF key \in canon THEN chunk.f[alt(key)] ELSE chunk.f[key]]]
NormalizeKeys(chunk) ==
  LET copied == {p \in AlternateKeys : ~Truthy(chunk, p[1]) /\ Truthy(chunk, p[2])}
      canon == {p[1] : p \in copied}
      alt(c) == (CHOOSE p \in copied : p[1] = c)[2]
  IN [chunk EXCEPT !.f = [key \in DOMAIN chunk.f \cup canon |->
                            IF key \in canon THEN chunk.f[alt(key)] ELSE chunk.f[key]]]

\* chunk.campaign || chunk.ad_group || chunk.ad_group_ad || chunk.customer_client || chunk.metrics
IsDirectResultNoMetrics(chunk) ==
  \E key \in RecognizedKeys \ {"metrics"} : Truthy(chunk, key)
IsDirectResult(chunk) == \E key \in RecognizedKeys : Truthy(chunk, key)

\* parseSearchStreamChunk of the last revision; ok = FALSE is a thrown TypeError
parseSearchStreamChunk(chunk) ==
  IF chunk.t = "null" THEN [ok |-> FALSE, rows |-> <<>>]
  ELSE IF HasResultsArray(chunk) THEN [ok |-> TRUE, rows |-> chunk.res[1].items]
  ELSE IF chunk.t # "obj" THEN [ok |-> TRUE, rows |-> <<>>]
  ELSE LET c == NormalizeKeys(chunk) IN
    IF IsDirectResult(c) THEN [ok |-> TRUE, rows |-> <<c>>]
    ELSE [ok |-> TRUE, rows |-> <<>>]

\* parseSearchStreamChunk of the searchStream revision: no key reconciliation
parseSearchStreamChunkV2(chunk) ==
  IF chunk.t = "null" THEN [ok |-> FALSE, rows |-> <<>>]
  ELSE IF HasResultsArray(chunk) THEN [ok |-> TRUE, rows |-> chunk.res[1].items]
  ELSE IF chunk.t = "obj" /\ IsDirectResult(chunk) THEN [ok |-> TRUE, rows |-> <<chunk>>]
  ELSE [ok |-> TRUE, rows |-> <<>>]

RECURSIVE FlatMapChunksReversed(_)
RECURSIVE FlatMapChunks(_)
\* items.flatMap(parseSearchStreamChunk); ok = FALSE when a callback throws
FlatMapChunksReversed(items) ==
  IF items = <<>> THEN [ok |-> TRUE, rows |-> <<>>]
  ELSE LET h == parseSearchStreamChunk(Head(items))
           r == FlatMapChunksReversed(Tail(items))
       IN IF h.ok /\ r.ok THEN [ok |-> TRUE, rows |-> r.rows \o h.rows]
          ELSE [ok |-> FALSE, rows |-> <<>>]
FlatMapChunks(items) ==
  IF items = <<>> THEN [ok |-> TRUE, rows |-> <<>>]
  ELSE LET h == parseSearchStreamChunk(Head(items))
           r == FlatMapChunks(Tail(items))
       IN IF h.ok /\ r.ok THEN [ok |-> TRUE, rows |-> h.rows \o r.rows]
          ELSE [ok |-> FALSE, rows |-> <<>>]

\* the body of the try block: the three shapes of a parsed document
NormalizeData(data) ==
  IF data.t = "arr" THEN FlatMapChunks(data.items)
  ELSE IF data.t = "null" THEN [ok |-> FALSE, rows |-> <<>>]
  ELSE IF HasResultsArray(data) THEN FlatMapChunks(data.res[1].items)
  ELSE parseSearchStreamChunk(data)

Rows(rows, logged) == [kind |-> "rows", rows |-> rows, logged |-> logged]
Malformed == [kind |-> "MalformedResponse", rows |-> <<>>, logged |-> 1]

\* executeGAQLQuery, first attempt: parse of a success body
ParseSearchResponseLenient(text) ==
  LET p == JSONParse(text)
      r == IF p.ok THEN NormalizeData(p.val) ELSE [ok |-> FALSE, rows |-> <<>>]
  IN IF r.ok THEN Rows(r.rows, 0) ELSE Rows(<<>>, 1)
ParseSearchResponse(text) ==
  LET p == JSONParse(text) IN
  IF ~p.ok THEN Malformed
  ELSE LET r == NormalizeData(p.val) IN
    IF r.ok THEN Rows(r.rows, 0) ELSE Malformed

\* executeGAQLQuery, retry: parse of a success body
ParseRetryResponse(text) ==
  LET p == JSONParse(text) IN
  IF ~p.ok THEN Malformed
  ELSE LET r == NormalizeData(p.val) IN
    IF r.ok THEN Rows(r.rows, 0) ELSE Malformed

\* one line of the searchStream revision: parsed rows, or a logged skip
StreamLine(line) ==
  LET p == JSONParse(line)
      r == IF p.ok THEN parseSearchStreamChunkV2(p.val) ELSE [ok |-> FALSE, rows |-> <<>>]
  IN IF r.ok THEN [rows |-> r.rows, logged |-> 0] ELSE [rows |-> <<>>, logged |-> 1]

RECURSIVE StreamLines(_)
StreamLines(lines) ==
  IF lines = <<>> THEN [rows |-> <<>>, logged |-> 0]
  ELSE LET h == StreamLine(Head(lines))
           r == StreamLines(Tail(lines))
       IN [rows |-> h.rows \o r.rows, logged |-> h.logged + r.logged]

\* executeGAQLQuery of the searchStream revision: parse of a success body
ParseStreamResponse(text) ==
  LET r == StreamLines(SplitLines(text)) IN Rows(r.rows, r.logged)

(***************************************************************************)
(* Token cache and refresher                                               *)
(***************************************************************************)
\* the callers whose requests may be in flight together
Calls == {"a", "b"}

\* null / undefined / "" for a refresh token
NoToken == "none"
RefreshTokens == {"rt1", "rt2"}

\* seconds of safety margin taken off the declared lifetime
ExpiryMargin == 300
\* declared lifetime assumed when the provider omits expires_in
DefaultExpiresIn == 3600
MsPerSecond == 1000

\* data.expires_in of a token response: <<>> when omitted, else <<seconds>>
ExpiresInValues == {<<>>, <<0>>, <<200>>}

\* milliseconds the clock may advance by in one step
TickSizes == {3300000}

\* HTTP statuses the query endpoint answers with
Statuses == {200, 401, 403}
IsOk(status) == status >= 200 /\ status <= 299

VARIABLES
  tokenCache,  \* Map<refreshToken, {token, expiry}>, as a function on the cached keys
  now,         \* Date.now()
  ticks,       \* clock advances so far
  issued,      \* issued[n]: the refresh token access token n was issued for
  nCalls,      \* calls started so far
  envToken,    \* process.env.GADS_REFRESH_TOKEN || process.env.REFRESH_TOKEN
  calls,       \* per caller: the call in flight and what it has done so far
  last,        \* the call that completed in the latest step, as it ended
  pin,         \* normaliser check: the response body under test
  pout,        \* normaliser check: the outcome per code path
  req,         \* request check: the arguments of an executeGAQLQuery call
  outbound,    \* request check: the requests the call sent
  chunk,       \* chunk check: the argument of parseSearchStreamChunk
  parsed,      \* chunk check: what the call returned and left in the chunk
  failure,     \* logger check: the value handed to the error logger
  emitted,     \* logger check: what the error logger gave out
  grouping,    \* adgroups check: the rows the handler groups
  response,    \* adgroups check: the response the handler builds
  handler      \* handler check: the request an endpoint handler is serving

vars == <<tokenCache, now, ticks, issued, nCalls, envToken, calls, last, pin, pout, req, outbound, chunk, parsed, failure, emitted, grouping, response, handler>>

NoOut == [kind |-> "none"]
NoResp == [status |-> 0, body |-> <<>>]
NoData == [ok |-> FALSE, access_token |-> 0, expires_in |-> <<>>, error |-> 0]

\* no arguments under test
NoRequest ==
  [customerId |-> <<>>, accessToken |-> 0, query |-> "", loginCustomerId |-> <<>>,
   managerId |-> <<>>, newAccessToken |-> 0]

\* no request has been sent for the arguments under test
NoneSent == [first |-> NoOut, retry |-> NoOut, norm |-> NoOut]

\* nothing has been handed to the error logger
NoFailure == [op |-> "none"]

\* no rows have reached the grouping of the adgroups handler
NoGrouping == [flow |-> "none"]

\* no code path has been run on the body under test
NoOuts == [first |-> NoOut, retry |-> NoOut, stream |-> NoOut]

\* the arguments of a call that is no executeGAQLQuery call
NoArgs == [customerId |-> <<>>, accessToken |-> 0, query |-> ""]

\* resp: the query response the call ended on; first: the first query status;
\* args: customerId, accessToken and query as the caller passed them
IdleCall ==
  [op |-> "none", pc |-> "idle", rt |-> NoToken, tok |-> NoToken, now0 |-> 0,
   auth |-> 0, q |-> 0, tk |-> 0, first |-> 0, resp |-> NoResp, tresp |-> NoData,
   out |-> NoOut, args |-> NoArgs]

\* no request has reached an endpoint handler
NoHandler == [endpoint |-> "none"]

\* now < cached.expiry
IsFreshInclusive(entry, t) == t <= entry.expiry
IsFresh(entry, t) == t < entry.expiry

\* tokenCache.delete(refreshToken)
CacheDeleteNothing(cache, rt) == cache
CacheDeleteAll(cache, rt) == [k \in {} |-> cache[k]]
CacheDelete(cache, rt) == [k \in DOMAIN cache \ {rt} |-> cache[k]]

\* tokenCache.set(token, {token, expiry})
CacheSetMerge(cache, rt, entry) ==
  [k \in DOMAIN cache \cup {rt} |->
     IF k # rt THEN cache[k]
     ELSE IF rt \in DOMAIN cache
       THEN [token |-> cache[rt].token, expiry |-> entry.expiry]
     ELSE entry]
CacheSet(cache, rt, entry) ==
  [k \in DOMAIN cache \cup {rt} |-> IF k = rt THEN entry ELSE cache[k]]

\* refreshToken || process.env.GADS_REFRESH_TOKEN || process.env.REFRESH_TOKEN
ResolveTokenParamOnly(rtArg, env) == rtArg
ResolveToken(rtArg, env) == IF rtArg # NoToken THEN rtArg ELSE env

\* getAccessTokenFromRefresh up to its first await: throw, cache hit, or fetch
GetSync(cache, t, rtArg, env) ==
  LET token == ResolveToken(rtArg, env) IN
  IF token = NoToken THEN [act |-> "throw", tok |-> token, token |-> 0]
  ELSE IF token \in DOMAIN cache /\ IsFresh(cache[token], t)
    THEN [act |-> "hit", tok |-> token, token |-> cache[token].token]
  ELSE [act |-> "fetch", tok |-> token, token |-> 0]

\* !response.ok || !data.access_token
RefreshFailedNoToken(data) == data.access_token = 0
RefreshFailed(data) == ~data.ok \/ data.access_token = 0

\* data.expires_in || 3600
ExpiresIn(data) ==
  IF data.expires_in = <<>> \/ data.expires_in = <<0>> THEN DefaultExpiresIn
  ELSE data.expires_in[1]

\* now + (expiresIn - 300) * 1000
CacheExpiry(t, data) == t + (ExpiresIn(data) - ExpiryMargin) * MsPerSecond

\* what the token endpoint may answer when the next access token is n
TokenAnswers(n) ==
  {[ok |-> TRUE, access_token |-> n, expires_in |-> e, error |-> 0] : e \in ExpiresInValues}
  \cup {[ok |-> FALSE, access_token |-> 0, expires_in |-> <<>>, error |-> 1],
        [ok |-> TRUE, access_token |-> 0, expires_in |-> <<>>, error |-> 1],
        [ok |-> FALSE, access_token |-> n, expires_in |-> <<3600>>, error |-> 1]}

(***************************************************************************)
(* Response bodies                                                         *)
(***************************************************************************)
Row(f) == JObj(f, <<>>)

\* rows a GAQL query may produce; "customer" is a resource the normaliser
\* does not list, adGroup the camelCase spelling of ad_group
RowSet ==
  {Row("campaign" :> 1), Row("campaign" :> 2 @@ "metrics" :> 1),
   Row("adGroup" :> 1), Row("customer" :> 1)}

RECURSIVE SeqsUpTo(_, _)
SeqsUpTo(S, n) ==
  IF n = 0 THEN {<<>>}
  ELSE LET shorter == SeqsUpTo(S, n - 1) IN
    shorter \cup {Append(q, x) : q \in {r \in shorter : Len(r) = n - 1}, x \in S}

ResultSets == SeqsUpTo(RowSet, MaxRows)

RECURSIVE JoinLines(_)
JoinLines(lines) ==
  IF lines = <<>> THEN <<>>
  ELSE IF Len(lines) = 1 THEN lines[1]
  ELSE lines[1] \o <<TNl>> \o JoinLines(Tail(lines))

\* the lines of the streaming encoding: one chunk, a row, per line
StreamLinesOf(rows) == [i \in 1..Len(rows) |-> JSONStringify(rows[i])]
StreamBody(rows) == JoinLines(StreamLinesOf(rows))
\* one JSON document: an array of rows
ArrayBody(rows) == JSONStringify(JArr(rows))
\* one JSON document: an object with a results array
ResultsBody(rows) == JSONStringify(JObj(NoProps, <<JArr(rows)>>))
\* one JSON document: an array of two chunks, each an object with a results
\* array, the first holding the first k rows
ChunkedBody(rows, k) ==
  JSONStringify(JArr(<<JObj(NoProps, <<JArr(SubSeq(rows, 1, k))>>),
                       JObj(NoProps, <<JArr(SubSeq(rows, k + 1, Len(rows)))>>)>>))

InsertAt(seq, i, x) == SubSeq(seq, 1, i) \o <<x>> \o SubSeq(seq, i + 1, Len(seq))
\* the streaming encoding with one unparseable line after line i
BadLineBody(rows, i) == JoinLines(InsertAt(StreamLinesOf(rows), i, <<TJunk>>))

\* bodies that encode no result set
OddBodies ==
  {<<>>, <<TJunk>>, <<TNull>>, <<TNum>>, <<TObj(NoProps)>>, <<TObj("fieldMask" :> 1)>>,
   <<TLb, TNull, TRb>>, <<TLb, TObj("campaign" :> 1), TComma, TRb>>,
   <<TObjR(NoProps), TNum, TEnd>>, <<TObjR(NoProps), TLb, TRb>>,
   <<TLb, TNl, TObj("campaign" :> 1), TNl, TRb>>,
   <<TObjR("campaign" :> 1), TLb, TObj("customer" :> 1), TRb, TEnd>>,
   <<TLb, TObjR(NoProps), TLb, TObj("customer" :> 1), TRb, TEnd, TRb>>}

\* bad: the place of the unparseable line, or of the chunk boundary
Input(enc, rows, bad, body) == [enc |-> enc, rows |-> rows, bad |-> bad, body |-> body]

ParseInputs ==
  {Input("stream", rs, 0, StreamBody(rs)) : rs \in ResultSets}
  \cup {Input("array", rs, 0, ArrayBody(rs)) : rs \in ResultSets}
  \cup {Input("results", rs, 0, ResultsBody(rs)) : rs \in ResultSets}
  \cup UNION {{Input("badline", rs, i + 1, BadLineBody(rs, i)) : i \in 0..Len(rs)} :
                rs \in ResultSets}
  \cup UNION {{Input("chunks", rs, k, ChunkedBody(rs, k)) : k \in 0..Len(rs)} :
                rs \in ResultSets}
  \cup {Input("odd", <<>>, 0, b) : b \in OddBodies}

\* success bodies the query endpoint answers with in the call model
SuccessBodies ==
  {ResultsBody(<<Row("campaign" :> 1)>>),
   StreamBody(<<Row("campaign" :> 1), Row("campaign" :> 2 @@ "metrics" :> 1)>>)}

\* error bodies the query endpoint answers with: a JSON error object, plain text
ErrorBodies == {<<TObj("error" :> 1)>>, <<TJunk>>}

\* the JSON string literal of a raw text
TStr(text) == [k |-> "str", s |-> text]

\* try { errorDetails = JSON.parse(errText) } catch { errorDetails = errText },
\* then JSON.stringify(errorDetails)
ErrorDetails(errText) ==
  LET p == JSONParse(errText) IN
  IF p.ok THEN JSONStringify(p.val) ELSE <<TStr(errText)>>

QueryFailed(status, errText, afterRefresh) ==
  [kind |-> "QueryFailed", status |-> status, detail |-> ErrorDetails(errText),
   afterRefresh |-> afterRefresh]

(***************************************************************************)
(* Calls: getAccessTokenFromRefresh and executeGAQLQuery                   *)
(***************************************************************************)
Init ==
  /\ tokenCache = [k \in {} |-> 0]
  /\ now = 0
  /\ ticks = 0
  /\ issued = <<>>
  /\ nCalls = 0
  /\ envToken \in {NoToken, "rt2"}
  /\ calls = [c \in Calls |-> IdleCall]
  /\ last = IdleCall
  /\ pin = Input("odd", <<>>, 0, <<>>)
  /\ pout = NoOuts
  /\ req = NoRequest
  /\ outbound = NoneSent
  /\ chunk = JNull
  /\ parsed = NoOut
  /\ failure = NoFailure
  /\ emitted = NoOut
  /\ grouping = NoGrouping
  /\ response = NoOut
  /\ handler = NoHandler

\* the clock advances
Tick ==
  /\ ticks < MaxTicks
  /\ \E d \in TickSizes : now' = now + d
  /\ ticks' = ticks + 1
  /\ last' = IdleCall
  /\ UNCHANGED <<tokenCache, issued, nCalls, envToken, handler, grouping, response, failure, emitted, calls, pin, pout, req, outbound, chunk, parsed>>

\* caller c's call ends as `call`: returned or threw
Complete(c, call) ==
  /\ calls' = [calls EXCEPT ![c] = IdleCall]
  /\ last' = call

\* caller c's call goes on as `call`, waiting for an answer
Continue(c, call) ==
  /\ calls' = [calls EXCEPT ![c] = call]
  /\ last' = IdleCall

\* a call record has ended (returned or threw)
Ended(call) == call.pc \in {"returned", "threw"}

\* caller c's call moves to `call`
Step(c, call) == IF Ended(call) THEN Complete(c, call) ELSE Continue(c, call)

\* getAccessTokenFromRefresh(rtArg) from its call to its first await
GetBegin(call, cache, t, rtArg, env) ==
  LET d == GetSync(cache, t, rtArg, env)
      base == [call EXCEPT !.tok = d.tok, !.now0 = t]
  IN CASE d.act = "throw" ->
            [base EXCEPT !.pc = "threw", !.out = [kind |-> "MissingCredential"]]
       [] d.act = "hit" ->
            [base EXCEPT !.pc = "returned", !.out = [kind |-> "token", token |-> d.token]]
       [] OTHER -> [base EXCEPT !.pc = "awaitToken", !.tk = call.tk + 1]

\* getAccessTokenFromRefresh after the token endpoint answered with data
GetResumeEvicting(call, cache, data) ==
  IF RefreshFailed(data)
  THEN [cache |-> CacheDelete(cache, call.tok),
        call |-> [call EXCEPT !.tresp = data, !.pc = "threw",
                              !.out = [kind |-> "TokenRefreshFailed", data |-> data]]]
  ELSE [cache |-> CacheSet(cache, call.tok,
                    [token |-> data.access_token, expiry |-> CacheExpiry(call.now0, data)]),
        call |-> [call EXCEPT !.tresp = data, !.pc = "returned",
                              !.out = [kind |-> "token", token |-> data.access_token]]]
GetResume(call, cache, data) ==
  IF RefreshFailed(data)
  THEN [cache |-> cache,
        call |-> [call EXCEPT !.tresp = data, !.pc = "threw",
                              !.out = [kind |-> "TokenRefreshFailed", data |-> data]]]
  ELSE [cache |-> CacheSet(cache, call.tok,
                    [token |-> data.access_token, expiry |-> CacheExpiry(call.now0, data)]),
        call |-> [call EXCEPT !.tresp = data, !.pc = "returned",
                              !.out = [kind |-> "token", token |-> data.access_token]]]

\* a caller calls getAccessTokenFromRefresh(rtArg)
GetStart(c) ==
  /\ calls[c].pc = "idle"
  /\ nCalls < MaxCalls
  /\ \E rtArg \in RefreshTokens \cup {NoToken} :
       Step(c, GetBegin([IdleCall EXCEPT !.op = "get", !.rt = rtArg],
                        tokenCache, now, rtArg, envToken))
  /\ nCalls' = nCalls + 1
  /\ UNCHANGED <<tokenCache, now, ticks, issued, envToken, handler, grouping, response, failure, emitted, pin, pout, req, outbound, chunk, parsed>>

\* executeGAQLQuery once getAccessTokenFromRefresh has ended as `got`:
\* a throw propagates, a token goes into the Authorization header of the retry
SendRetryDespiteFailure(got) ==
  [got EXCEPT !.pc = "awaitQ2", !.q = got.q + 1, !.out = NoOut,
              !.auth = IF got.pc = "threw" THEN 0 ELSE got.out.token]
SendRetry(got) ==
  IF got.pc = "threw" THEN got
  ELSE [got EXCEPT !.pc = "awaitQ2", !.auth = got.out.token, !.q = got.q + 1, !.out = NoOut]

\* the token endpoint answers caller c
TokenResponse(c) ==
  /\ calls[c].pc \in {"awaitToken", "awaitForced"}
  /\ \E data \in TokenAnswers(Len(issued) + 1) :
       LET r == GetResume(calls[c], tokenCache, data) IN
       /\ issued' = IF data.access_token # 0 THEN Append(issued, calls[c].tok) ELSE issued
       /\ tokenCache' = r.cache
       /\ Step(c, IF calls[c].op = "get" THEN r.call ELSE SendRetry(r.call))
  /\ UNCHANGED <<now, ticks, nCalls, envToken, handler, grouping, response, failure, emitted, pin, pout, req, outbound, chunk, parsed>>

\* access tokens a caller passes in: none (0), one it held from before (-1),
\* the one cached for its refresh token
CallerTokens(cache, rtArg) ==
  {0, -1} \cup (IF rtArg \in DOMAIN cache THEN {cache[rtArg].token} ELSE {})

\* !customerId || !accessToken || !query
MissingArgumentButToken(customerId, accessToken, query) ==
  customerId = <<>> \/ query = ""
MissingArgument(customerId, accessToken, query) ==
  customerId = <<>> \/ accessToken = 0 \/ query = ""

\* executeGAQLQuery from its call to its first await: argument check, first request
ExecBegin(call, customerId, accessToken, query) ==
  LET args == [customerId |-> customerId, accessToken |-> accessToken, query |-> query]
      called == [call EXCEPT !.args = args]
  IN IF MissingArgument(customerId, accessToken, query)
     THEN [called EXCEPT !.pc = "threw", !.out = [kind |-> "InvalidArgument"]]
     ELSE [called EXCEPT !.pc = "awaitQ1", !.auth = accessToken, !.q = 1]

\* a caller calls executeGAQLQuery(customerId, accessToken, query, _, rtArg)
ExecStart(c) ==
  /\ calls[c].pc = "idle"
  /\ nCalls < MaxCalls
  /\ \E customerId \in {<<>>, <<"1", "-", "2">>}, query \in {"", "SELECT"},
        rtArg \in RefreshTokens \cup {NoToken} :
     \E accessToken \in CallerTokens(tokenCache, rtArg) :
       Step(c, ExecBegin([IdleCall EXCEPT !.op = "exec", !.rt = rtArg],
                         customerId, accessToken, query))
  /\ nCalls' = nCalls + 1
  /\ UNCHANGED <<tokenCache, now, ticks, issued, envToken, handler, grouping, response, failure, emitted, pin, pout, req, outbound, chunk, parsed>>

\* response.status === 401
IsAuthFailureAnyError(status) == ~IsOk(status)
IsAuthFailure(status) == status = 401

\* (response.status === 401 || shouldTrySearchFallback) && refreshToken
ShouldRetryWithoutToken(status, rtArg) == IsAuthFailure(status)
ShouldRetry(status, rtArg) == IsAuthFailure(status) /\ rtArg # NoToken

\* the 401 branch: delete the cache entry, call getAccessTokenFromRefresh
Handle401IfRejected(call, cache, t, env) ==
  LET cleared == IF call.rt \in DOMAIN cache /\ cache[call.rt].token = call.auth
                 THEN CacheDelete(cache, call.rt) ELSE cache
      got == GetBegin(call, cleared, t, call.rt, env)
  IN [cache |-> cleared,
      call |-> IF got.pc = "awaitToken" THEN [got EXCEPT !.pc = "awaitForced"]
               ELSE SendRetry(got)]
Handle401(call, cache, t, env) ==
  LET cleared == CacheDelete(cache, call.rt)
      got == GetBegin(call, cleared, t, call.rt, env)
  IN [cache |-> cleared,
      call |-> IF got.pc = "awaitToken" THEN [got EXCEPT !.pc = "awaitForced"]
               ELSE SendRetry(got)]

\* a parsed success body ends the call
EndParsed(call, r) ==
  [call EXCEPT !.pc = IF r.kind = "rows" THEN "returned" ELSE "threw", !.out = r]

\* executeGAQLQuery after the first query request was answered
ExecFirstEvicting(call, cache, t, env, status, body) ==
  LET seen == [call EXCEPT !.first = status] IN
  IF ShouldRetry(status, call.rt) THEN Handle401(seen, cache, t, env)
  ELSE [cache |-> IF IsOk(status) THEN cache ELSE CacheDelete(cache, call.rt),
        call |->
          LET done == [seen EXCEPT !.resp = [status |-> status, body |-> body]] IN
          IF ~IsOk(status)
          THEN [done EXCEPT !.pc = "threw", !.out = QueryFailed(status, body, FALSE)]
          ELSE EndParsed(done, ParseSearchResponse(body))]
ExecFirst(call, cache, t, env, status, body) ==
  LET seen == [call EXCEPT !.first = status] IN
  IF ShouldRetry(status, call.rt) THEN Handle401(seen, cache, t, env)
  ELSE [cache |-> cache,
        call |->
          LET done == [seen EXCEPT !.resp = [status |-> status, body |-> body]] IN
          IF ~IsOk(status)
          THEN [done EXCEPT !.pc = "threw", !.out = QueryFailed(status, body, FALSE)]
          ELSE EndParsed(done, ParseSearchResponse(body))]

\* executeGAQLQuery after the retry query request was answered
ExecRetryAgain(call, status, body) ==
  IF status = 401 THEN [call EXCEPT !.q = call.q + 1]
  ELSE EndParsed([call EXCEPT !.resp = [status |-> status, body |-> body]],
                 ParseRetryResponse(body))
ExecRetry(call, status, body) ==
  LET done == [call EXCEPT !.resp = [status |-> status, body |-> body]] IN
  IF ~IsOk(status)
  THEN [done EXCEPT !.pc = "threw", !.out = QueryFailed(status, body, TRUE)]
  ELSE EndParsed(done, ParseRetryResponse(body))

\* the query endpoint answers the first request of caller c
QueryResponse(c) ==
  /\ calls[c].pc = "awaitQ1"
  /\ \E status \in Statuses :
     \E body \in IF IsOk(status) THEN SuccessBodies ELSE ErrorBodies :
       LET r == ExecFirst(calls[c], tokenCache, now, envToken, status, body) IN
       /\ tokenCache' = r.cache
       /\ Step(c, r.call)
  /\ UNCHANGED <<now, ticks, issued, nCalls, envToken, handler, grouping, response, failure, emitted, pin, pout, req, outbound, chunk, parsed>>

\* the query endpoint answers the retry request of caller c
RetryResponse(c) ==
  /\ calls[c].pc = "awaitQ2"
  /\ \E status \in Statuses :
     \E body \in IF IsOk(status) THEN SuccessBodies ELSE ErrorBodies :
       Step(c, ExecRetry(calls[c], status, body))
  /\ UNCHANGED <<tokenCache, now, ticks, issued, nCalls, envToken, handler, grouping, response, failure, emitted, pin, pout, req, outbound, chunk, parsed>>

Next ==
  \/ Tick
  \/ \E c \in Calls : GetStart(c)
  \/ \E c \in Calls : TokenResponse(c)
  \/ \E c \in Calls : ExecStart(c)
  \/ \E c \in Calls : QueryResponse(c)
  \/ \E c \in Calls : RetryResponse(c)

Spec == Init /\ [][Next]_vars

(***************************************************************************)
(* The normaliser on its own: one body, run through each code path         *)
(***************************************************************************)
ParseInit ==
  /\ tokenCache = [k \in {} |-> 0]
  /\ now = 0
  /\ ticks = 0
  /\ issued = <<>>
  /\ nCalls = 0
  /\ envToken = NoToken
  /\ calls = [c \in Calls |-> IdleCall]
  /\ last = IdleCall
  /\ pin \in ParseInputs
  /\ pout = NoOuts
  /\ req = NoRequest
  /\ outbound = NoneSent
  /\ chunk = JNull
  /\ parsed = NoOut
  /\ failure = NoFailure
  /\ emitted = NoOut
  /\ grouping = NoGrouping
  /\ response = NoOut
  /\ handler = NoHandler

\* the body is the 2xx answer to the first query request
ParseFirst ==
  /\ pout.first = NoOut
  /\ pout' = [pout EXCEPT !.first = ParseSearchResponse(pin.body)]
  /\ UNCHANGED <<tokenCache, now, ticks, issued, nCalls, envToken, handler, grouping, response, failure, emitted, calls, last, pin, req, outbound, chunk, parsed>>

\* the body is the 2xx answer to the retry query request
ParseRetry ==
  /\ pout.retry = NoOut
  /\ pout' = [pout EXCEPT !.retry = ParseRetryResponse(pin.body)]
  /\ UNCHANGED <<tokenCache, now, ticks, issued, nCalls, envToken, handler, grouping, response, failure, emitted, calls, last, pin, req, outbound, chunk, parsed>>

\* the body is the 2xx answer to a query of the searchStream revision
ParseStream ==
  /\ pout.stream = NoOut
  /\ pout' = [pout EXCEPT !.stream = ParseStreamResponse(pin.body)]
  /\ UNCHANGED <<tokenCache, now, ticks, issued, nCalls, envToken, handler, grouping, response, failure, emitted, calls, last, pin, req, outbound, chunk, parsed>>

ParseNext == ParseFirst \/ ParseRetry \/ ParseStream

SpecParse == ParseInit /\ [][ParseNext]_vars

(***************************************************************************)
(* The outbound query request on its own: one set of arguments, the        *)
(* requests executeGAQLQuery builds from it                                *)
(***************************************************************************)
Digits == {"0", "1", "2", "3", "4", "5", "6", "7", "8", "9"}

\* characters of the customer ids under test
IdChars == {"1", "2", "-", " "}
\* length of the longest customer id under test
MaxIdLen == 3
CustomerIds == SeqsUpTo(IdChars, MaxIdLen)

\* customerId.replace(/-/g, '')
StripFirstDash(s) ==
  LET dashes == {i \in 1..Len(s) : s[i] = "-"} IN
  IF dashes = {} THEN s
  ELSE LET i == CHOOSE d \in dashes : \A e \in dashes : d <= e
       IN SubSeq(s, 1, i - 1) \o SubSeq(s, i + 1, Len(s))
StripDashes(s) == SelectSeq(s, LAMBDA ch : ch # "-")

\* String(mccId).replace(/[^0-9]/g, '')
DigitsOnly(s) == SelectSeq(s, LAMBDA ch : ch \in Digits)

\* loginCustomerId || MANAGER_ID
MccIdManagerFirst(loginCustomerId, managerId) ==
  IF managerId # <<>> THEN managerId ELSE loginCustomerId
MccId(loginCustomerId, managerId) ==
  IF loginCustomerId # <<>> THEN loginCustomerId ELSE managerId

\* the headers object after the optional login-customer-id was added
Headers(accessToken, loginCustomerId, managerId) ==
  LET base == "Authorization" :> <<"Bearer", accessToken>>
                @@ "developer-token" :> <<"DEVELOPER_TOKEN">>
                @@ "Content-Type" :> <<"application/json">>
      mccId == MccId(loginCustomerId, managerId)
  IN IF mccId # <<>> THEN base @@ "login-customer-id" :> DigitsOnly(mccId) ELSE base

\* https://googleads.googleapis.com/v22/customers/<id>/googleAds:search
SearchUrl(normalizedCustomerId) ==
  [base |-> "https://googleads.googleapis.com/v22/customers/",
   customer |-> normalizedCustomerId, method |-> "/googleAds:search"]

\* JSON.stringify({ query })
Body(query) == JSONStringify(JObj("query" :> query, <<>>))

QueryRequest(url, headers, body) ==
  [kind |-> "request", method |-> "POST", url |-> url, headers |-> headers,
   body |-> body]

\* executeGAQLQuery up to its first fetch
FirstRequest(r) ==
  IF MissingArgument(r.customerId, r.accessToken, r.query)
  THEN [kind |-> "InvalidArgument"]
  ELSE QueryRequest(SearchUrl(StripDashes(r.customerId)),
                    Headers(r.accessToken, r.loginCustomerId, r.managerId),
                    Body(r.query))

\* the retry fetch: same URL and body, the Authorization header replaced
RetryRequestRawId(r) ==
  QueryRequest(SearchUrl(r.customerId),
               [Headers(r.accessToken, r.loginCustomerId, r.managerId)
                  EXCEPT !["Authorization"] = <<"Bearer", r.newAccessToken>>],
               Body(r.query))
RetryRequest(r) ==
  QueryRequest(SearchUrl(StripDashes(r.customerId)),
               [Headers(r.accessToken, r.loginCustomerId, r.managerId)
                  EXCEPT !["Authorization"] = <<"Bearer", r.newAccessToken>>],
               Body(r.query))

\* normalizeCustomerId(customerId)
normalizeCustomerId(customerId) ==
  IF customerId = <<>> THEN [kind |-> "InvalidCustomerId"]
  ELSE [kind |-> "value", value |-> StripDashes(customerId)]

RequestInputs ==
  [customerId : CustomerIds, accessToken : {0, 1}, query : {"", "SELECT"},
   loginCustomerId : {<<>>, <<"9", "-", "8">>}, managerId : {<<>>, <<"7", " ">>},
   newAccessToken : {2}]

RequestInit ==
  /\ tokenCache = [k \in {} |-> 0]
  /\ now = 0
  /\ ticks = 0
  /\ issued = <<>>
  /\ nCalls = 0
  /\ envToken = NoToken
  /\ calls = [c \in Calls |-> IdleCall]
  /\ last = IdleCall
  /\ pin = Input("odd", <<>>, 0, <<>>)
  /\ pout = NoOuts
  /\ req \in RequestInputs
  /\ outbound = NoneSent
  /\ chunk = JNull
  /\ parsed = NoOut
  /\ failure = NoFailure
  /\ emitted = NoOut
  /\ grouping = NoGrouping
  /\ response = NoOut
  /\ handler = NoHandler

\* executeGAQLQuery(req...) checks its arguments and sends its first request
SendFirst ==
  /\ outbound.first = NoOut
  /\ outbound' = [outbound EXCEPT !.first = FirstRequest(req)]
  /\ UNCHANGED <<tokenCache, now, ticks, issued, nCalls, envToken, handler, grouping, response, failure, emitted, calls, last,
                 pin, pout, req, chunk, parsed>>

\* after a 401 and a forced refresh the call sends its retry request
SendSecond ==
  /\ outbound.first.kind = "request"
  /\ outbound.retry = NoOut
  /\ outbound' = [outbound EXCEPT !.retry = RetryRequest(req)]
  /\ UNCHANGED <<tokenCache, now, ticks, issued, nCalls, envToken, handler, grouping, response, failure, emitted, calls, last,
                 pin, pout, req, chunk, parsed>>

\* normalizeCustomerId(req.customerId)
NormalizeId ==
  /\ outbound.norm = NoOut
  /\ outbound' = [outbound EXCEPT !.norm = normalizeCustomerId(req.customerId)]
  /\ UNCHANGED <<tokenCache, now, ticks, issued, nCalls, envToken, handler, grouping, response, failure, emitted, calls, last,
                 pin, pout, req, chunk, parsed>>

RequestNext == SendFirst \/ SendSecond \/ NormalizeId

SpecRequest == RequestInit /\ [][RequestNext]_vars

(***************************************************************************)
(* parseSearchStreamChunk on its own: one chunk, one call                  *)
(***************************************************************************)
ChunkKeys ==
  {"campaign", "ad_group", "adGroup", "ad_group_ad", "adGroupAd",
   "customer_client", "customerClient", "metrics", "customer"}
\* values of a key: 0 is a falsy value, the others are two different objects
Payloads == {0, 1, 2}
\* most keys of a chunk under test
MaxKeys == 2

KeySets == {K \in SUBSET ChunkKeys : Cardinality(K) <= MaxKeys}

\* objects without a results array: no results member, or one that is no array
ObjectChunks ==
  UNION {{JObj(f, res) : f \in [K -> Payloads], res \in {<<>>, <<JNum>>}} : K \in KeySets}

Chunks ==
  ObjectChunks
  \cup {JNull, JNum, JArr(<<>>), JObj(NoProps, <<JArr(<<Row("customer" :> 1)>>)>>),
        JObj("adGroup" :> 1, <<JArr(<<>>)>>)}

\* the chunk object as the call leaves it: the reconciliation assigns in place
ChunkAfter(c) ==
  IF c.t = "obj" /\ ~HasResultsArray(c) THEN NormalizeKeys(c) ELSE c

ChunkInit ==
  /\ tokenCache = [k \in {} |-> 0]
  /\ now = 0
  /\ ticks = 0
  /\ issued = <<>>
  /\ nCalls = 0
  /\ envToken = NoToken
  /\ calls = [c \in Calls |-> IdleCall]
  /\ last = IdleCall
  /\ pin = Input("odd", <<>>, 0, <<>>)
  /\ pout = NoOuts
  /\ req = NoRequest
  /\ outbound = NoneSent
  /\ chunk \in Chunks
  /\ parsed = NoOut
  /\ failure = NoFailure
  /\ emitted = NoOut
  /\ grouping = NoGrouping
  /\ response = NoOut
  /\ handler = NoHandler

\* parseSearchStreamChunk(chunk)
ParseChunk ==
  /\ parsed = NoOut
  /\ parsed' = [kind |-> "parsed", out |-> parseSearchStreamChunk(chunk),
                chunk |-> ChunkAfter(chunk)]
  /\ UNCHANGED <<tokenCache, now, ticks, issued, nCalls, envToken, handler, grouping, response, failure, emitted, calls, last,
                 pin, pout, req, outbound, chunk>>

ChunkNext == ParseChunk

SpecChunk == ChunkInit /\ [][ChunkNext]_vars

(***************************************************************************)
(* The error logger of utils/error-logger.js: maskToken and logAndRespond  *)
(* on their own.  A string is its sequence of characters; an object is a   *)
(* record of fields, with a mark on the instances of Error, whose message  *)
(* and stack are not enumerable.                                           *)
(***************************************************************************)
JUndefined == [t |-> "undefined"]
JStr(chars) == [t |-> "str", s |-> chars]
JRec(f, isError) == [t |-> "rec", f |-> f, err |-> isError]

\* !v is false
IsTruthy(v) ==
  CASE v.t = "str" -> v.s # <<>>
    [] v.t = "rec" -> TRUE
    [] v.t = "num" -> TRUE
    [] OTHER -> FALSE

\* v?.key
Field(v, key) ==
  IF v.t = "rec" /\ key \in DOMAIN v.f THEN v.f[key] ELSE JUndefined

\* a || b
OrElse(a, b) == IF IsTruthy(a) THEN a ELSE b

\* token.length < 10
MaskThreshold == 10
\* token.substring(0, 8)
MaskHead == 8
\* token.substring(token.length - 6)
MaskTail == 6

Stars == <<"*", "*", "*">>
Dots == <<".", ".", ".">>

\* maskToken(token), as the characters of the string it returns
maskToken(token) ==
  IF ~IsTruthy(token) \/ token.t # "str" \/ Len(token.s) < MaskThreshold THEN Stars
  ELSE SubSeq(token.s, 1, MaskHead) \o Dots
         \o SubSeq(token.s, Len(token.s) - MaskTail + 1, Len(token.s))

\* the keys of the model
FieldKeys ==
  {"message", "details", "error", "body", "stack", "data", "value", "secret",
   "token", "access_token", "refreshToken"}

\* key.toLowerCase().includes('token'), over the keys of the model
IsTokenKey(key) == key \in {"token", "access_token", "refreshToken"}

\* JSON.parse(JSON.stringify(v)): a copy; of an Error only the enumerable
\* fields are kept
RECURSIVE JSONCopy(_)
JSONCopy(v) ==
  IF v.t # "rec" THEN v
  ELSE LET kept == DOMAIN v.f \ (IF v.err THEN {"message", "stack"} ELSE {})
       IN JRec([key \in kept |-> JSONCopy(v.f[key])], FALSE)

\* maskTokensInObject(obj)
RECURSIVE maskTokensInObject(_)
maskTokensInObject(obj) ==
  [obj EXCEPT !.f =
     [key \in DOMAIN obj.f |->
        LET v == obj.f[key] IN
        IF IsTokenKey(key) /\ v.t = "str" THEN JStr(maskToken(v))
        ELSE IF v.t = "rec" THEN maskTokensInObject(v)
        ELSE v]]

\* the characters of "refresh_token="
RefreshTokenEq ==
  <<"r", "e", "f", "r", "e", "s", "h", "_", "t", "o", "k", "e", "n", "=">>

\* the place of the first occurrence of pat in text at or after from, else 0
IndexOf(text, pat, from) ==
  LET at == {i \in from..(Len(text) - Len(pat) + 1) :
               SubSeq(text, i, i + Len(pat) - 1) = pat}
  IN IF at = {} THEN 0 ELSE CHOOSE i \in at : \A j \in at : i <= j

\* text.replace(pat, with) for a string pat: the first occurrence only
ReplaceFirst(text, pat, with) ==
  LET i == IndexOf(text, pat, 1) IN
  IF i = 0 THEN text
  ELSE SubSeq(text, 1, i - 1) \o with \o SubSeq(text, i + Len(pat), Len(text))

\* the end of the run of characters that are no blank and no quote from i on
RunEnd(text, i) ==
  LET stops == {j \in i..Len(text) : text[j] \in {" ", "'", "\""}}
  IN IF stops = {} THEN Len(text) ELSE (CHOOSE j \in stops : \A k \in stops : j <= k) - 1

\* text.replace(/refresh[_-]?token[=:]\s*['"]?([^'"\s]+)/gi,
\*              (match, token) => match.replace(token, maskToken(token)))
\* over texts that spell the key as refresh_token= and hold it at most once
MaskInString(text) ==
  LET i == IndexOf(text, RefreshTokenEq, 1)
      from == i + Len(RefreshTokenEq)
      to == RunEnd(text, from)
  IN IF i = 0 \/ to < from THEN text
     ELSE LET match == SubSeq(text, i, to)
              token == SubSeq(text, from, to)
          IN SubSeq(text, 1, i - 1)
               \o ReplaceFirst(match, token, maskToken(JStr(token)))
               \o SubSeq(text, to + 1, Len(text))

\* error?.message || error?.error?.message || 'Unknown error'
ErrorMessage(error) ==
  OrElse(Field(error, "message"),
         OrElse(Field(Field(error, "error"), "message"), JStr(<<"Unknown error">>)))

\* error?.details || error?.error?.details || error?.body || error
ErrorDetailsOf(error) ==
  OrElse(Field(error, "details"),
         OrElse(Field(Field(error, "error"), "details"),
                OrElse(Field(error, "body"), error)))

\* the sanitizedDetails of logAndRespond
SanitizedDetails(error) ==
  LET details == ErrorDetailsOf(error) IN
  CASE details.t = "str" -> JStr(MaskInString(details.s))
    [] details.t = "rec" -> maskTokensInObject(JSONCopy(details))
    [] OTHER -> details

\* logAndRespond(error, context): what console.error is given and what is
\* returned (timestamps left out)
logAndRespond(error, context) ==
  [kind |-> "logAndRespond",
   logged |-> [context |-> context,
               message |-> ErrorMessage(error),
               details |-> SanitizedDetails(error),
               stack |-> OrElse(Field(error, "stack"), JNull)],
   returned |-> [success |-> FALSE,
                 context |-> IF context = "" THEN "Unknown" ELSE context,
                 message |-> ErrorMessage(error),
                 details |-> SanitizedDetails(error)]]

Alphabet ==
  <<"a", "b", "c", "d", "e", "f", "g", "h", "i", "j", "k", "l", "m",
    "n", "o", "p", "q", "r", "s", "t", "u", "v", "w", "x", "y", "z">>

\* token strings: of every length up to the bound, and one that is part of
\* the text "refresh_token="
Tokens ==
  {SubSeq(Alphabet, 1, n) : n \in 0..MaxTokenLen} \cup {<<"t", "o", "k", "e", "n">>}

\* values handed to maskToken
MaskArguments == {JStr(tk) : tk \in Tokens} \cup {JNull, JUndefined, JNum}

Plain(f) == JRec(f, FALSE)
Message == JStr(<<"m">>)

\* errors handed to logAndRespond that hold the token tk
ErrorsWith(tk) ==
  {Plain("details" :> Plain("access_token" :> JStr(tk))),
   Plain("message" :> Message
           @@ "error" :> Plain("message" :> Message
                                 @@ "details" :> Plain("refreshToken" :> JStr(tk)))),
   Plain("body" :> Plain("data" :> Plain("token" :> JStr(tk) @@ "value" :> JNum))),
   JRec("message" :> Message @@ "stack" :> JStr(<<"s">>) @@ "access_token" :> JStr(tk),
        TRUE),
   Plain("details" :> Plain("secret" :> JStr(tk))),
   Plain("details" :> Plain("token" :> Plain("value" :> JStr(tk)))),
   Plain("details" :> JStr(<<"x", " ">> \o RefreshTokenEq \o tk \o <<" ", "y">>)),
   Plain("message" :> Message @@ "details" :> JStr(RefreshTokenEq \o tk))}

ErrorArguments ==
  UNION {ErrorsWith(tk) : tk \in Tokens}
    \cup {JNull, JUndefined, JStr(<<"m">>), JRec("message" :> Message, TRUE)}

LoggerInit ==
  /\ tokenCache = [k \in {} |-> 0]
  /\ now = 0
  /\ ticks = 0
  /\ issued = <<>>
  /\ nCalls = 0
  /\ envToken = NoToken
  /\ calls = [c \in Calls |-> IdleCall]
  /\ last = IdleCall
  /\ pin = Input("odd", <<>>, 0, <<>>)
  /\ pout = NoOuts
  /\ req = NoRequest
  /\ outbound = NoneSent
  /\ chunk = JNull
  /\ parsed = NoOut
  /\ failure \in {[op |-> "maskToken", arg |-> v] : v \in MaskArguments}
                   \cup {[op |-> "logAndRespond", arg |-> v] : v \in ErrorArguments}
  /\ emitted = NoOut
  /\ grouping = NoGrouping
  /\ response = NoOut
  /\ handler = NoHandler

\* maskToken(token)
MaskToken ==
  /\ failure.op = "maskToken"
  /\ emitted = NoOut
  /\ emitted' = [kind |-> "maskToken", value |-> maskToken(failure.arg)]
  /\ UNCHANGED <<tokenCache, now, ticks, issued, nCalls, envToken, handler, grouping, response, failure, calls, last,
                 pin, pout, req, outbound, chunk, parsed>>

\* logAndRespond(error, context)
LogAndRespond ==
  /\ failure.op = "logAndRespond"
  /\ emitted = NoOut
  /\ \E context \in {"", "GET /api/campaigns"} :
       emitted' = logAndRespond(failure.arg, context)
  /\ UNCHANGED <<tokenCache, now, ticks, issued, nCalls, envToken, handler, grouping, response, failure, calls, last,
                 pin, pout, req, outbound, chunk, parsed>>

LoggerNext == MaskToken \/ LogAndRespond

SpecLogger == LoggerInit /\ [][LoggerNext]_vars

(***************************************************************************)
(* The grouping of the adgroups handler (api/adgroups.js): the rows of the *)
(* ad_group_ad query, or the rows made from the asset groups, grouped by   *)
(* ad group.  Rows are objects as the logger section has them; the rows of *)
(* this model hold ids and names only, so status, type and metrics take    *)
(* their defaults.                                                         *)
(***************************************************************************)
JNumber(n) == [t |-> "num", n |-> n]

DigitChars == <<"0", "1", "2", "3", "4", "5", "6", "7", "8", "9">>

\* v?.toString()
IdToString(v) ==
  CASE v.t = "str" -> v
    [] v.t = "num" -> JStr(<<DigitChars[v.n + 1]>>)
    [] OTHER -> JUndefined

\* r.ad_group?.id?.toString()
AdGroupIdOf(r) == IdToString(Field(Field(r, "ad_group"), "id"))

\* r.ad_group_ad?.ad?.id?.toString()
AdIdOf(r) == IdToString(Field(Field(Field(r, "ad_group_ad"), "ad"), "id"))

Text(word) == JStr(<<word>>)

\* the metrics of an ad whose row has no metrics
ZeroMetrics ==
  [impressions |-> 0, clicks |-> 0, ctr |-> 0, cost_micros |-> 0, cost |-> 0]

\* usedAssetGroupFlow ? 'ASSET_GROUP' : 'UNKNOWN'
DefaultType(usedAssetGroupFlow) ==
  IF usedAssetGroupFlow THEN Text("ASSET_GROUP") ELSE Text("UNKNOWN")

\* the entry adGroupsMap.set gives a new ad group
NewAdGroup(r, usedAssetGroupFlow) ==
  [id |-> AdGroupIdOf(r),
   name |-> OrElse(Field(Field(r, "ad_group"), "name"), Text("Unnamed Ad Group")),
   status |-> OrElse(Field(Field(r, "ad_group"), "status"), Text("UNKNOWN")),
   type |-> OrElse(Field(Field(r, "ad_group"), "type"), DefaultType(usedAssetGroupFlow)),
   ads |-> <<>>]

\* the ad pushed for a row
NewAd(r, usedAssetGroupFlow) ==
  [id |-> AdIdOf(r),
   name |-> OrElse(Field(Field(Field(r, "ad_group_ad"), "ad"), "name"), Text("Unnamed Ad")),
   type |-> OrElse(Field(Field(Field(r, "ad_group_ad"), "ad"), "type"),
                   DefaultType(usedAssetGroupFlow)),
   status |-> OrElse(Field(Field(r, "ad_group_ad"), "status"), Text("UNKNOWN")),
   metrics |-> ZeroMetrics]

\* the place of the entry with this id in a sequence of entries, else 0
PlaceOf(entries, id) ==
  LET at == {i \in 1..Len(entries) : entries[i].id = id}
  IN IF at = {} THEN 0 ELSE CHOOSE i \in at : \A j \in at : i <= j

\* adGroup.ads.find(ad => ad.id === adId)
HasAdNever(ads, adId) == FALSE
HasAd(ads, adId) == PlaceOf(ads, adId) # 0

\* one turn of results.forEach: adGroupsMap, in insertion order, after row r
AddRow(adGroups, r, usedAssetGroupFlow) ==
  IF ~IsTruthy(AdGroupIdOf(r)) THEN adGroups
  ELSE LET known == IF PlaceOf(adGroups, AdGroupIdOf(r)) # 0 THEN adGroups
                    ELSE Append(adGroups, NewAdGroup(r, usedAssetGroupFlow))
           i == PlaceOf(known, AdGroupIdOf(r))
       IN IF IsTruthy(AdIdOf(r)) /\ ~HasAd(known[i].ads, AdIdOf(r))
          THEN [known EXCEPT ![i].ads = Append(@, NewAd(r, usedAssetGroupFlow))]
          ELSE known

\* results.forEach(...) from the adGroupsMap built so far
RECURSIVE GroupRows(_, _, _)
GroupRows(results, adGroups, usedAssetGroupFlow) ==
  IF results = <<>> THEN adGroups
  ELSE GroupRows(Tail(results), AddRow(adGroups, Head(results), usedAssetGroupFlow),
                 usedAssetGroupFlow)

\* g.asset_group?.id?.toString()
AssetGroupIdOf(g) == IdToString(Field(Field(g, "asset_group"), "id"))

\* one turn of assetGroups.forEach: agMap.set(gid, ...) keeps the place of a
\* key it already holds and replaces its value
AddAssetGroup(agMap, g) ==
  LET gid == AssetGroupIdOf(g)
      entry == [id |-> gid,
                name |-> OrElse(Field(Field(g, "asset_group"), "name"),
                                Text("Unnamed Asset Group")),
                status |-> OrElse(Field(Field(g, "asset_group"), "status"),
                                  Text("UNKNOWN"))]
  IN IF ~IsTruthy(gid) THEN agMap
     ELSE IF PlaceOf(agMap, gid) # 0 THEN [agMap EXCEPT ![PlaceOf(agMap, gid)] = entry]
     ELSE Append(agMap, entry)

RECURSIVE AssetGroupMap(_, _)
AssetGroupMap(assetGroups, agMap) ==
  IF assetGroups = <<>> THEN agMap
  ELSE AssetGroupMap(Tail(assetGroups), AddAssetGroup(agMap, Head(assetGroups)))

\* Array.from(agMap.values()).map(g => ({ad_group: ..., ad_group_ad: ...}))
AssetGroupResults(assetGroups) ==
  LET agMap == AssetGroupMap(assetGroups, <<>>) IN
  [i \in 1..Len(agMap) |->
     Plain("ad_group" :> Plain("id" :> agMap[i].id @@ "name" :> agMap[i].name
                                 @@ "status" :> agMap[i].status
                                 @@ "type" :> Text("ASSET_GROUP"))
             @@ "ad_group_ad" :>
                  Plain("ad" :> Plain("id" :> JStr(agMap[i].id.s \o <<"-assets">>)
                                        @@ "name" :> Text("Asset Group Bundle")
                                        @@ "type" :> Text("ASSET_GROUP"))))]

\* the rows results.forEach runs over
ProcessedRows(g) ==
  IF g.flow = "asset_group" THEN AssetGroupResults(g.rows) ELSE g.rows

\* the response object: with campaign_id when the request gave one
AdGroupsResponse(adGroups, campaign_id) ==
  IF campaign_id # <<>>
  THEN [kind |-> "adgroups", success |-> TRUE, campaign_id |-> StripDashes(campaign_id),
        ad_groups |-> adGroups, count |-> Len(adGroups)]
  ELSE [kind |-> "adgroups", success |-> TRUE, campaign_id |-> <<>>,
        ad_groups |-> adGroups, count |-> Len(adGroups)]

\* ids and names the rows of the model hold
RowIds == {JUndefined, JNumber(1), JStr(<<"1">>), JStr(<<"2">>)}
AdIds == {JUndefined, JStr(<<"7">>), JStr(<<"8">>)}
RowNames == {JUndefined, Text("a")}

WithField(key, v) == IF v = JUndefined THEN <<>> ELSE key :> v

\* rows of the ad_group_ad query; a row without ids has no ad_group object
AdRows ==
  {Plain((IF gid = JUndefined /\ name = JUndefined THEN <<>>
          ELSE "ad_group" :> Plain(WithField("id", gid) @@ WithField("name", name)))
         @@ "ad_group_ad" :> Plain("ad" :> Plain(WithField("id", aid)
                                                   @@ WithField("name", name)))) :
     gid \in RowIds, aid \in AdIds, name \in RowNames}

\* rows of the asset_group query
AssetGroupRows ==
  {Plain("asset_group" :> Plain(WithField("id", gid) @@ WithField("name", name))) :
     gid \in {JUndefined, JStr(<<"1">>), JStr(<<"2">>)}, name \in RowNames}

\* the asset-group flow is taken when the asset_group query gave rows
Groupings ==
  {[flow |-> "ad_group_ad", rows |-> rows, campaign_id |-> cid] :
     rows \in SeqsUpTo(AdRows, MaxAdRows), cid \in {<<>>, <<"5", "-", "6">>}}
  \cup {[flow |-> "asset_group", rows |-> rows, campaign_id |-> cid] :
          rows \in SeqsUpTo(AssetGroupRows, MaxAdRows) \ {<<>>},
          cid \in {<<>>, <<"5", "-", "6">>}}

GroupingInit ==
  /\ tokenCache = [k \in {} |-> 0]
  /\ now = 0
  /\ ticks = 0
  /\ issued = <<>>
  /\ nCalls = 0
  /\ envToken = NoToken
  /\ calls = [c \in Calls |-> IdleCall]
  /\ last = IdleCall
  /\ pin = Input("odd", <<>>, 0, <<>>)
  /\ pout = NoOuts
  /\ req = NoRequest
  /\ outbound = NoneSent
  /\ chunk = JNull
  /\ parsed = NoOut
  /\ failure = NoFailure
  /\ emitted = NoOut
  /\ grouping \in Groupings
  /\ response = NoOut
  /\ handler = NoHandler

\* the adgroups handler from `Group results by ad group` to its response
GroupAdGroups ==
  /\ response = NoOut
  /\ response' =
       AdGroupsResponse(GroupRows(ProcessedRows(grouping), <<>>,
                                  grouping.flow = "asset_group"),
                        grouping.campaign_id)
  /\ UNCHANGED <<tokenCache, now, ticks, issued, nCalls, envToken, handler, grouping, calls, last,
                 pin, pout, req, outbound, chunk, parsed, failure, emitted>>

GroupingNext == GroupAdGroups

SpecGrouping == GroupingInit /\ [][GroupingNext]_vars

(***************************************************************************)
(* The endpoint handlers that take a refresh token: GET /api/campaigns,    *)
(* /api/adgroups, /api/ads-metrics and /api/mcc-accounts.  One request is  *)
(* served at a time; the handler calls getAccessTokenFromRefresh and       *)
(* executeGAQLQuery of utils/google-ads-api.js, whose steps are the        *)
(* operators of the call section, and the code between two awaits runs in  *)
(* the step of the answer that ends the first.  login_customer_id reaches  *)
(* the request headers only and is left out.                               *)
(***************************************************************************)
Endpoints == {"campaigns", "adgroups", "ads-metrics", "mcc-accounts"}

\* process.env.GADS_MANAGER_ID
EnvManagerId == <<>>

\* req.query: <<>> and NoToken stand for a parameter that is absent or empty;
\* include_all_campaigns is 'true' when absent
Queries(endpoint) ==
  {[customer_id |-> c, refresh_token |-> r, manager_customer_id |-> m,
    include_all_campaigns |-> i] :
     c \in {<<>>, <<"1", "-", "2">>}, r \in {NoToken, "rt1"},
     m \in IF endpoint = "mcc-accounts" THEN {<<>>, <<"7", "-", "8">>} ELSE {<<>>},
     i \in IF endpoint = "ads-metrics" THEN {"true", "false"} ELSE {"true"}}

\* no request has been received
IdleHandler ==
  [endpoint |-> "none",
   query |-> [customer_id |-> <<>>, refresh_token |-> NoToken,
              manager_customer_id |-> <<>>, include_all_campaigns |-> "true"],
   n |-> 0, pc |-> "done", stage |-> "none", call |-> IdleCall, accessToken |-> 0,
   kept |-> <<>>, responses |-> <<>>, sent |-> 0]

\* if (!customer_id || !refresh_token); mcc-accounts: if (!refresh_token)
MissingParametersCustomerOnly(endpoint, query) ==
  endpoint # "mcc-accounts" /\ query.customer_id = <<>>
MissingParameters(endpoint, query) ==
  IF endpoint = "mcc-accounts" THEN query.refresh_token = NoToken
  ELSE query.customer_id = <<>> \/ query.refresh_token = NoToken

\* return res.status(status).json(body)
Respond(h, status, body) ==
  [h EXCEPT !.pc = "done", !.stage = "none", !.call = IdleCall,
            !.responses = Append(@, [status |-> status, body |-> body])]

ErrorBody == [kind |-> "error", success |-> FALSE]

\* extractGoogleAdsError(err) ? 400 : 500.  The messages of lines 447 and 533
\* of google-ads-api.js match no pattern and 'Invalid customer ID' matches
\* INVALID_CUSTOMER_ID; the other messages carry the provider's text, which
\* matches a pattern (known) or does not
ErrorStatus(out, known) ==
  CASE out.kind \in {"MissingCredential", "InvalidArgument"} -> 500
    [] out.kind = "InvalidCustomerId" -> 400
    [] OTHER -> IF known THEN 400 ELSE 500

\* the catch block of a handler
Caught(h, out, known) == Respond(h, ErrorStatus(out, known), ErrorBody)

\* a row of the call section as the object the handlers read: the payload of
\* a resource is its id
RowObject(row) ==
  Plain([k \in DOMAIN row.f |->
           IF row.f[k] = 0 THEN JUndefined
           ELSE IF k = "ad_group_ad" THEN Plain("ad" :> Plain("id" :> JNumber(row.f[k])))
           ELSE Plain("id" :> JNumber(row.f[k]))])

RowObjects(rows) == [i \in 1..Len(rows) |-> RowObject(rows[i])]

\* results.map(...) and the response of campaigns, ads-metrics, mcc-accounts
ListResponse(endpoint, rows) ==
  [kind |-> endpoint, success |-> TRUE, count |-> Len(rows)]

\* the adgroups handler from `Group results by ad group` to its response
GroupedResponse(results, usedAssetGroupFlow) ==
  AdGroupsResponse(GroupRows(results, <<>>, usedAssetGroupFlow), <<>>)

\* the handler calls executeGAQLQuery(customerId, accessToken, query, mccId, refresh_token)
StartQuery(h, stage, customerId) ==
  LET call == ExecBegin([IdleCall EXCEPT !.op = "exec", !.rt = h.query.refresh_token],
                        customerId, h.accessToken, "SELECT")
  IN [h EXCEPT !.stage = stage, !.call = call, !.sent = @ + call.q]

\* the customer the queries of a handler are run for
QueryCustomer(h) ==
  IF h.endpoint = "mcc-accounts"
  THEN IF h.query.manager_customer_id # <<>> THEN h.query.manager_customer_id
       ELSE EnvManagerId
  ELSE h.query.customer_id

\* the handler after `await getAccessTokenFromRefresh(refresh_token)`
AfterToken(h, known) ==
  IF h.call.pc = "threw" THEN Caught(h, h.call.out, known)
  ELSE LET held == [h EXCEPT !.accessToken = h.call.out.token]
           id == normalizeCustomerId(QueryCustomer(h))
       IN IF h.endpoint = "mcc-accounts" /\ QueryCustomer(h) = <<>>
          THEN Respond(held, 400, [kind |-> "Missing MCC ID", success |-> FALSE])
          ELSE IF id.kind # "value" THEN Caught(held, id, known)
          ELSE StartQuery(held, "query", id.value)

\* the handler after an `await executeGAQLQuery(...)`
AfterQuery(h, known) ==
  LET threw == h.call.pc = "threw"
      rows == IF threw THEN <<>> ELSE h.call.out.rows
      customerId == h.call.args.customerId
  IN CASE h.endpoint \in {"campaigns", "mcc-accounts"} ->
            IF threw THEN Caught(h, h.call.out, known)
            ELSE Respond(h, 200, ListResponse(h.endpoint, rows))
       [] h.endpoint = "adgroups" /\ h.stage = "query" ->
            IF threw THEN Caught(h, h.call.out, known)
            ELSE IF Len(rows) = 0 THEN StartQuery(h, "asset_group", customerId)
            ELSE Respond(h, 200, GroupedResponse(RowObjects(rows), FALSE))
       [] h.endpoint = "adgroups" /\ h.stage = "asset_group" ->
            IF threw THEN Caught(h, h.call.out, known)
            ELSE IF Len(rows) > 0
              THEN StartQuery([h EXCEPT !.kept = rows], "asset_group_asset", customerId)
            ELSE Respond(h, 200, GroupedResponse(<<>>, FALSE))
       [] h.endpoint = "adgroups" /\ h.stage = "asset_group_asset" ->
            Respond(h, 200, GroupedResponse(AssetGroupResults(RowObjects(h.kept)), TRUE))
       [] h.endpoint = "ads-metrics" /\ h.stage = "query" ->
            IF h.query.include_all_campaigns = "true"
            THEN StartQuery([h EXCEPT !.kept = rows], "campaigns", customerId)
            ELSE Respond(h, 200, ListResponse(h.endpoint, rows))
       [] OTHER ->
            Respond(h, 200, ListResponse(h.endpoint, IF threw THEN h.kept ELSE rows))

\* the handler runs on while the call it awaits has ended
RECURSIVE Resume(_, _)
Resume(h, known) ==
  IF h.pc = "done" \/ ~Ended(h.call) THEN h
  ELSE Resume(IF h.stage = "token" THEN AfterToken(h, known) ELSE AfterQuery(h, known),
              known)

\* the handler from the request to its first await
Receive(endpoint, query, n, cache, t, env, known) ==
  LET h == [IdleHandler EXCEPT !.endpoint = endpoint, !.query = query, !.n = n,
                               !.pc = "serving"]
  IN IF MissingParameters(endpoint, query)
     THEN Respond(h, 400, [kind |-> "Missing required parameters", success |-> FALSE])
     ELSE LET id == IF endpoint = "mcc-accounts" THEN [kind |-> "value"]
                    ELSE normalizeCustomerId(query.customer_id)
              get == GetBegin([IdleCall EXCEPT !.op = "get", !.rt = query.refresh_token],
                              cache, t, query.refresh_token, env)
          IN IF id.kind # "value" THEN Caught(h, id, known)
             ELSE Resume([h EXCEPT !.stage = "token", !.call = get, !.sent = get.tk], known)

\* requests sent by the call so far
Sent(call) == call.tk + call.q

\* the handler when the call it awaits moves to `call`
Proceed(h, call, known) ==
  Resume([h EXCEPT !.call = call, !.sent = @ + Sent(call) - Sent(h.call)], known)

\* success bodies the query endpoint answers a handler's query with
HandlerBodies ==
  {ResultsBody(<<>>), ResultsBody(<<Row("campaign" :> 1)>>),
   ResultsBody(<<Row("ad_group" :> 1 @@ "ad_group_ad" :> 7),
                 Row("ad_group" :> 1 @@ "ad_group_ad" :> 7)>>),
   ResultsBody(<<Row("asset_group" :> 2)>>)}

HandlerInit ==
  /\ tokenCache = [k \in {} |-> 0]
  /\ now = 0
  /\ ticks = 0
  /\ issued = <<>>
  /\ nCalls = 0
  /\ envToken = NoToken
  /\ calls = [c \in Calls |-> IdleCall]
  /\ last = IdleCall
  /\ pin = Input("odd", <<>>, 0, <<>>)
  /\ pout = NoOuts
  /\ req = NoRequest
  /\ outbound = NoneSent
  /\ chunk = JNull
  /\ parsed = NoOut
  /\ failure = NoFailure
  /\ emitted = NoOut
  /\ grouping = NoGrouping
  /\ response = NoOut
  /\ handler = IdleHandler

\* a request reaches a handler
HandlerRequest ==
  /\ handler.pc = "done"
  /\ handler.n < MaxRequests
  /\ \E endpoint \in Endpoints, known \in BOOLEAN :
     \E query \in Queries(endpoint) :
       handler' = Receive(endpoint, query, handler.n + 1, tokenCache, now, envToken, known)
  /\ UNCHANGED <<tokenCache, now, ticks, issued, nCalls, envToken, calls, last, pin, pout,
                 req, outbound, chunk, parsed, failure, emitted, grouping, response>>

\* the token endpoint answers the handler's call
HandlerTokenResponse ==
  /\ handler.pc = "serving"
  /\ handler.call.pc \in {"awaitToken", "awaitForced"}
  /\ \E data \in TokenAnswers(Len(issued) + 1), known \in BOOLEAN :
       LET r == GetResume(handler.call, tokenCache, data) IN
       /\ issued' = IF data.access_token # 0 THEN Append(issued, handler.call.tok)
                    ELSE issued
       /\ tokenCache' = r.cache
       /\ handler' = Proceed(handler,
                             IF handler.call.op = "get" THEN r.call ELSE SendRetry(r.call),
                             known)
  /\ UNCHANGED <<now, ticks, nCalls, envToken, calls, last, pin, pout,
                 req, outbound, chunk, parsed, failure, emitted, grouping, response>>

\* the query endpoint answers the first request of the handler's call
HandlerQueryResponse ==
  /\ handler.pc = "serving"
  /\ handler.call.pc = "awaitQ1"
  /\ \E status \in Statuses, known \in BOOLEAN :
     \E body \in IF IsOk(status) THEN HandlerBodies ELSE ErrorBodies :
       LET r == ExecFirst(handler.call, tokenCache, now, envToken, status, body) IN
       /\ tokenCache' = r.cache
       /\ handler' = Proceed(handler, r.call, known)
  /\ UNCHANGED <<now, ticks, issued, nCalls, envToken, calls, last, pin, pout,
                 req, outbound, chunk, parsed, failure, emitted, grouping, response>>

\* the query endpoint answers the retry request of the handler's call
HandlerRetryResponse ==
  /\ handler.pc = "serving"
  /\ handler.call.pc = "awaitQ2"
  /\ \E status \in Statuses, known \in BOOLEAN :
     \E body \in IF IsOk(status) THEN HandlerBodies ELSE ErrorBodies :
       handler' = Proceed(handler, ExecRetry(handler.call, status, body), known)
  /\ UNCHANGED <<tokenCache, now, ticks, issued, nCalls, envToken, calls, last, pin, pout,
                 req, outbound, chunk, parsed, failure, emitted, grouping, response>>

HandlerNext ==
  \/ HandlerRequest
  \/ HandlerTokenResponse
  \/ HandlerQueryResponse
  \/ HandlerRetryResponse

SpecHandler == HandlerInit /\ [][HandlerNext]_vars

(***************************************************************************)
(* Properties of the token cache and the query executor                    *)
(***************************************************************************)
\* a token answer with a non-success status or without access_token
RefreshFailedAnswer(data) == data.ok = FALSE \/ data.access_token = 0

\* the record of caller c's call after a step it took
After(c) == IF calls'[c].pc = "idle" THEN last' ELSE calls'[c]

\* the cache has no entry for refresh token rt, or the entry's expiry has passed
NoLiveEntry(cache, t, rt) == rt \notin DOMAIN cache \/ ~(t < cache[rt].expiry)

\* a step in which a getAccessTokenFromRefresh call with a refresh token begins
GetBegins(c) ==
  /\ calls[c].pc = "idle"
  /\ nCalls' = nCalls + 1
  /\ After(c).op = "get"
  /\ After(c).tok # NoToken

\* a step in which executeGAQLQuery takes its 401 branch
Takes401Branch(c) ==
  /\ calls[c].pc = "awaitQ1"
  /\ calls[c].rt # NoToken
  /\ After(c).first = 401

\* C1: a getAccessTokenFromRefresh call whose resolved refresh token is t sends
\* a request to the token endpoint iff the cache holds no entry for t or the
\* entry's expiry has passed; otherwise it returns the cached access token and
\* sends nothing.  The forced acquisition of the 401 branch is such a call too.
C1_CacheFreshness ==
  [][\A c \in Calls :
       /\ GetBegins(c) =>
            IF NoLiveEntry(tokenCache, now, After(c).tok)
            THEN After(c).pc = "awaitToken" /\ After(c).tk = 1
            ELSE /\ After(c).pc = "returned"
                 /\ After(c).tk = 0
                 /\ After(c).out = [kind |-> "token",
                                    token |-> tokenCache[After(c).tok].token]
       /\ Takes401Branch(c) =>
            /\ NoLiveEntry(tokenCache', now, calls[c].rt)
            /\ After(c).pc = "awaitForced"
            /\ After(c).tk = 1]_vars

\* a call answered from the cache at the instant the entry was about to expire
C1_Witness ==
  /\ last.op = "get"
  /\ last.pc = "returned"
  /\ last.tk = 0
  /\ last.tok \in DOMAIN tokenCache
  /\ tokenCache[last.tok].expiry > now

\* C2 as stated: after a first 401 with a refreshToken, exactly one retry query
\* request is sent, and a non-success retry ends the call with a query error.
C2_ExactlyOneRetry ==
  (last.op = "exec" /\ last.first = 401 /\ last.rt # NoToken) =>
    /\ last.q = 2
    /\ ~IsOk(last.resp.status) => last.out.kind = "QueryFailed"

\* C2 amended: after a first 401 with a refreshToken the call sends one token
\* request; it sends exactly one retry query request when that refresh
\* succeeds and none when it fails, so never more than two query requests; a
\* non-success retry, a second 401 included, ends the call with a query error
\* carrying the retry's status.
C2_OneRetryAfterRefresh ==
  (last.op = "exec" /\ last.first = 401 /\ last.rt # NoToken) =>
    /\ last.tk = 1
    /\ last.q = IF RefreshFailedAnswer(last.tresp) THEN 1 ELSE 2
    /\ last.q = 1 => last.out.kind = "TokenRefreshFailed"
    /\ (last.q = 2 /\ ~IsOk(last.resp.status)) =>
         /\ last.pc = "threw"
         /\ last.out.kind = "QueryFailed"
         /\ last.out.status = last.resp.status
         /\ last.out.afterRefresh

\* a call that ended on a second 401
C2_Witness ==
  /\ last.op = "exec"
  /\ last.first = 401
  /\ last.q = 2
  /\ last.resp.status = 401
  /\ last.out.kind = "QueryFailed"

\* C3: in the 401 branch the cache entry of the refresh token is removed, one
\* token request is sent (the forced acquisition is not answered from the
\* cache, whatever other callers wrote), and the retry carries the access
\* token that request returned.
C3_ForcedAcquisition ==
  [][\A c \in Calls :
       /\ Takes401Branch(c) =>
            /\ calls[c].rt \notin DOMAIN tokenCache'
            /\ After(c).pc = "awaitForced"
            /\ After(c).tk = 1
            /\ After(c).q = 1
       /\ (calls[c].pc = "awaitForced" /\ calls'[c].pc = "awaitQ2") =>
            /\ calls'[c].auth = Len(issued')
            /\ issued'[Len(issued')] = calls[c].rt
            /\ Len(issued') = Len(issued) + 1
            /\ calls'[c].auth # calls[c].auth
            /\ calls'[c].tk = 1
            /\ calls'[c].q = 2
       /\ (calls[c].pc = "awaitQ2" /\ calls'[c].pc = "idle") =>
            /\ last'.auth = calls[c].auth
            /\ last'.tk = 1
            /\ last'.q = 2]_vars

\* a retry in flight while another caller has since written the same cache key
C3_Witness ==
  \E c \in Calls :
    /\ calls[c].pc = "awaitQ2"
    /\ calls[c].rt \in DOMAIN tokenCache
    /\ tokenCache[calls[c].rt].token # calls[c].auth

\* C4: a first 401 without a refreshToken ends the call at once with a query
\* error of status 401: no retry, no token request, the cache untouched.
C4_NoRetryWithoutRefreshToken ==
  [][\A c \in Calls :
       (calls[c].pc = "awaitQ1" /\ calls[c].rt = NoToken /\ After(c).first = 401) =>
         /\ After(c).pc = "threw"
         /\ After(c).out.kind = "QueryFailed"
         /\ After(c).out.status = 401
         /\ ~After(c).out.afterRefresh
         /\ After(c).q = 1
         /\ After(c).tk = 0
         /\ tokenCache' = tokenCache
         /\ issued' = issued]_vars

\* such a call ended while the cache held an entry and a fallback was configured
C4_Witness ==
  /\ last.op = "exec"
  /\ last.rt = NoToken
  /\ last.first = 401
  /\ last.pc = "threw"
  /\ envToken \in DOMAIN tokenCache

\* C9: a first answer that is neither 2xx nor 401 ends the call at once with
\* an error carrying the status and the payload (the parsed JSON, else the raw
\* text); no retry query and no token request is sent.
C9_OtherFailuresSurface ==
  (last.op = "exec" /\ last.first # 0 /\ ~IsOk(last.first) /\ last.first # 401) =>
    /\ last.pc = "threw"
    /\ last.out.kind = "QueryFailed"
    /\ last.out.status = last.first
    /\ last.resp.status = last.first
    /\ \/ last.out.detail = last.resp.body
       \/ last.out.detail = <<TStr(last.resp.body)>>
    /\ ~last.out.afterRefresh
    /\ last.q = 1
    /\ last.tk = 0

\* such a failure for a call that had a refreshToken
C9_Witness ==
  /\ last.op = "exec"
  /\ last.rt # NoToken
  /\ last.first = 403
  /\ last.out.kind = "QueryFailed"

GetCalled(c) ==
  /\ calls[c].pc = "idle"
  /\ nCalls' = nCalls + 1
  /\ After(c).op = "get"

\* a step in which the token endpoint answers caller c's own
\* getAccessTokenFromRefresh call
GetAnswered(c) ==
  /\ calls[c].pc = "awaitToken"
  /\ calls'[c] # calls[c]

\* cache2 is cache1 but for the entry of refresh token rt
SameButFor(cache1, cache2, rt) ==
  /\ DOMAIN cache1 \ {rt} = DOMAIN cache2 \ {rt}
  /\ \A k \in DOMAIN cache1 \ {rt} : cache2[k] = cache1[k]

\* C11: getAccessTokenFromRefresh fails with a missing-credential error exactly
\* when neither the parameter nor the configured fallback gives a refresh
\* token; then no request is sent and the cache is unchanged.  With only the
\* fallback available, the fallback is the refresh token the request is sent
\* for and the key of the cache entry written.
C11_MissingCredential ==
  [][\A c \in Calls :
       /\ GetCalled(c) =>
            /\ After(c).out.kind = "MissingCredential"
                 <=> (After(c).rt = NoToken /\ envToken = NoToken)
            /\ After(c).out.kind = "MissingCredential" =>
                 /\ After(c).pc = "threw"
                 /\ After(c).tk = 0
                 /\ tokenCache' = tokenCache
                 /\ issued' = issued
            /\ After(c).out.kind # "MissingCredential" =>
                 After(c).tok = IF After(c).rt # NoToken THEN After(c).rt ELSE envToken
       /\ (GetAnswered(c) /\ calls[c].rt = NoToken) =>
            /\ envToken # NoToken
            /\ SameButFor(tokenCache, tokenCache', envToken)
            /\ issued' # issued => issued'[Len(issued')] = envToken
            /\ After(c).pc = "returned" =>
                 /\ envToken \in DOMAIN tokenCache'
                 /\ tokenCache'[envToken].token = After(c).out.token]_vars

\* a call without any refresh token failed while the cache held an entry
C11_Witness ==
  /\ last.op = "get"
  /\ last.rt = NoToken
  /\ envToken = NoToken
  /\ last.out.kind = "MissingCredential"
  /\ DOMAIN tokenCache # {}

\* C12: an executeGAQLQuery call in which customerId, accessToken or query is
\* missing fails with an invalid-argument error: no query request, no token
\* request, the cache as it was.  A call with all three goes on to its first
\* query request.
C12_InvalidArgument ==
  [][\A c \in Calls :
       (calls[c].pc = "idle" /\ nCalls' = nCalls + 1 /\ After(c).op = "exec") =>
         IF \/ After(c).args.customerId = <<>>
            \/ After(c).args.accessToken = 0
            \/ After(c).args.query = ""
         THEN /\ After(c).pc = "threw"
              /\ After(c).out.kind = "InvalidArgument"
              /\ After(c).q = 0
              /\ After(c).tk = 0
              /\ tokenCache' = tokenCache
              /\ issued' = issued
         ELSE /\ After(c).pc = "awaitQ1"
              /\ After(c).q = 1]_vars

\* a call lacking only the accessToken failed although its refreshToken had a
\* cache entry
C12_Witness ==
  /\ last.op = "exec"
  /\ last.out.kind = "InvalidArgument"
  /\ last.args.customerId # <<>>
  /\ last.args.query # ""
  /\ last.args.accessToken = 0
  /\ last.rt \in DOMAIN tokenCache

\* C13: a cache entry is removed only in a step in which an executeGAQLQuery
\* call that was given that entry's refresh token handles a 401 answer to its
\* first query request.
C13_DeleteOnlyOn401 ==
  [][\A k \in DOMAIN tokenCache :
       k \notin DOMAIN tokenCache' =>
         \E c \in Calls : Takes401Branch(c) /\ calls[c].rt = k]_vars

\* a call that passed the cached access token has taken the 401 branch and the
\* entry is gone
C13_Witness ==
  \E c \in Calls :
    /\ calls[c].pc = "awaitForced"
    /\ calls[c].auth >= 1
    /\ calls[c].rt \notin DOMAIN tokenCache

\* the lifetime the provider declared: expires_in, or 3600 s when it is omitted
DeclaredLifetime(data) ==
  IF data.expires_in = <<>> THEN DefaultExpiresIn ELSE data.expires_in[1]

\* C14: after a successful refresh for refresh token t the cache entry of t
\* holds the access token the provider returned and the expiry
\* (time the call began) + (declared lifetime - 300 s), and the call returns
\* that access token.
C14_ExpiryFromDeclaredLifetime ==
  (last.op = "get" /\ last.pc = "returned" /\ last.tk = 1) =>
    /\ last.tok \in DOMAIN tokenCache
    /\ tokenCache[last.tok] =
         [token |-> last.tresp.access_token,
          expiry |-> last.now0
                       + (DeclaredLifetime(last.tresp) - ExpiryMargin) * MsPerSecond]
    /\ last.out = [kind |-> "token", token |-> last.tresp.access_token]

\* C15: when concurrent getAccessTokenFromRefresh calls for one refresh token
\* are all refreshing, each call whose token request succeeds returns the
\* access token issued in that answer and leaves as the cache entry exactly the
\* pair it wrote, whatever entry another call wrote before; a call fails only
\* when its own token request failed.
C15_LostUpdateTolerated ==
  [][\A c \in Calls :
       GetAnswered(c) =>
         IF RefreshFailedAnswer(After(c).tresp)
         THEN After(c).pc = "threw" /\ tokenCache' = tokenCache
         ELSE /\ After(c).pc = "returned"
              /\ After(c).out = [kind |-> "token", token |-> After(c).tresp.access_token]
              /\ After(c).tresp.access_token = Len(issued')
              /\ Len(issued') = Len(issued) + 1
              /\ SameButFor(tokenCache, tokenCache', After(c).tok)
              /\ After(c).tok \in DOMAIN tokenCache'
              /\ tokenCache'[After(c).tok] =
                   [token |-> After(c).tresp.access_token,
                    expiry |-> After(c).now0
                                 + (ExpiresIn(After(c).tresp) - ExpiryMargin) * MsPerSecond]]_vars

\* two calls for one refresh token were refreshing together; one has just
\* written the entry, the other is still waiting for its answer
C15_Witness ==
  \E c \in Calls :
    /\ calls[c].op = "get"
    /\ calls[c].pc = "awaitToken"
    /\ last.op = "get"
    /\ last.pc = "returned"
    /\ last.tk = 1
    /\ last.tok = calls[c].tok
    /\ last.tok \in DOMAIN tokenCache
    /\ tokenCache[last.tok].token = last.out.token

\* C22 as stated: when the forced refresh after a 401 fails, executeGAQLQuery
\* fails with that token-refresh error after one query request and one token
\* request, and the cache has no entry for the refresh token.
C22_FailedRefreshLeavesNoEntry ==
  (last.op = "exec" /\ last.tk >= 1 /\ RefreshFailedAnswer(last.tresp)) =>
    /\ last.pc = "threw"
    /\ last.out = [kind |-> "TokenRefreshFailed", data |-> last.tresp]
    /\ last.q = 1
    /\ last.tk = 1
    /\ last.rt \notin DOMAIN tokenCache

\* C22 amended: when the forced refresh after a 401 fails, executeGAQLQuery
\* fails with that token-refresh error after one query request and one token
\* request, and it writes no cache entry: an entry the cache holds for the
\* refresh token at that moment was written by another request's refresh.
C22_FailedRefreshEndsCall ==
  (last.op = "exec" /\ last.tk >= 1 /\ RefreshFailedAnswer(last.tresp)) =>
    /\ last.pc = "threw"
    /\ last.first = 401
    /\ last.out = [kind |-> "TokenRefreshFailed", data |-> last.tresp]
    /\ last.q = 1
    /\ last.tk = 1
    /\ last.rt \in DOMAIN tokenCache =>
         /\ tokenCache[last.rt].token # last.tresp.access_token
         /\ tokenCache[last.rt].token \in 1..Len(issued)
         /\ issued[tokenCache[last.rt].token] = last.rt

\* the forced refresh failed after another request had refreshed the same
\* refresh token
C22_Witness ==
  /\ last.op = "exec"
  /\ last.out.kind = "TokenRefreshFailed"
  /\ last.q = 1
  /\ last.rt \in DOMAIN tokenCache

\* a step of caller c's executeGAQLQuery call: its call, or a resumption
ExecSteps(c) ==
  /\ After(c).op = "exec"
  /\ calls'[c] # calls[c] \/ (calls[c].pc = "idle" /\ nCalls' = nCalls + 1)

\* C26: a step of an executeGAQLQuery call changes the token cache or sends a
\* token request only when the call's first query response was 401 and a
\* refreshToken was supplied; in every other execution no step of the call
\* touches the cache or the token endpoint.
C26_CacheAndTokenEndpointUntouched ==
  [][\A c \in Calls :
       ExecSteps(c) =>
         ((tokenCache' # tokenCache \/ issued' # issued \/ After(c).tk # calls[c].tk
             \/ After(c).tk # 0)
            => (After(c).first = 401 /\ After(c).rt # NoToken))]_vars

\* a call given a refresh token got a non-401 failure while the cache held an
\* entry for that refresh token: the entry is still there
C26_Witness ==
  /\ last.op = "exec"
  /\ last.first = 403
  /\ last.tk = 0
  /\ last.rt \in DOMAIN tokenCache

\* the cache key a call works on
KeyOf(call) == IF call.op = "get" THEN call.tok ELSE call.rt

\* C27: a step of a call for refresh token t leaves the entries of every other
\* refresh token as they were, a step of no call leaves the cache as it was,
\* every entry holds an access token the provider issued for the entry's key,
\* and getAccessTokenFromRefresh returns only an access token the provider
\* issued for the refresh token the call resolved.
C27_SlotsIsolated ==
  [][/\ \A c \in Calls :
          calls'[c] # calls[c] => SameButFor(tokenCache, tokenCache', KeyOf(After(c)))
     /\ (\A c \in Calls : calls'[c] = calls[c]) => tokenCache' = tokenCache
     /\ \A k \in DOMAIN tokenCache' :
          /\ tokenCache'[k].token \in 1..Len(issued')
          /\ issued'[tokenCache'[k].token] = k
     /\ (last'.op = "get" /\ last'.pc = "returned") =>
          /\ last'.out.token \in 1..Len(issued')
          /\ issued'[last'.out.token] = last'.tok]_vars

\* a refresh for one refresh token has just written its entry while the cache
\* held another refresh token's entry
C27_Witness ==
  /\ last.op = "get"
  /\ last.pc = "returned"
  /\ last.tk = 1
  /\ \E k \in DOMAIN tokenCache :
       /\ k # last.tok
       /\ tokenCache[k].token # last.out.token
  /\ last.tok \in DOMAIN tokenCache

\* a step in which a getAccessTokenFromRefresh call returns from the cache the
\* access token that the call ended one step before has just stored: `last`
\* is the storing call, `now` the time the provider's answer was handled
HitsJustStored ==
  /\ last.op = "get"
  /\ last.pc = "returned"
  /\ last.tk = 1
  /\ last'.op = "get"
  /\ last'.pc = "returned"
  /\ last'.tk = 0
  /\ last'.tok = last.tok
  /\ last'.out.token = last.out.token

\* C28: an access token returned from the cache has at least 300 s left of
\* the lifetime the provider declared for it, counted from the time the
\* provider answered (3600 s when expires_in was omitted).
C28_HitHasMarginLeft ==
  [][HitsJustStored =>
       now + DeclaredLifetime(last.tresp) * MsPerSecond - last'.now0
         >= ExpiryMargin * MsPerSecond]_vars

\* the query endpoint answered 401 to a request of the call that carried tkn
Rejected(call, tkn) ==
  \/ call.first = 401 /\ call.args.accessToken = tkn
  \/ call.q = 2 /\ call.resp.status = 401 /\ call.auth = tkn

\* C29: when an executeGAQLQuery call that was given a refreshToken ends, no
\* cache entry holds an access token the query endpoint answered 401 to
\* during that call.
C29_NoRejectedTokenCached ==
  (last.op = "exec" /\ last.rt # NoToken) =>
    \A k \in DOMAIN tokenCache : ~Rejected(last, tokenCache[k].token)

\* C30 as stated: a 401 branch removes a cache entry only if the entry holds
\* the access token the query endpoint just rejected.
C30_DeletesOnlyRejectedToken ==
  [][\A c \in Calls : \A k \in DOMAIN tokenCache :
       (Takes401Branch(c) /\ k \notin DOMAIN tokenCache')
         => tokenCache[k].token = calls[c].auth]_vars

\* C30 amended: a 401 branch removes the entry of the call's refresh token
\* whatever access token the entry holds, and removes or changes no other
\* entry.
C30_DeletesEntryOfRefreshToken ==
  [][\A c \in Calls :
       Takes401Branch(c) =>
         /\ calls[c].rt \notin DOMAIN tokenCache'
         /\ SameButFor(tokenCache, tokenCache', calls[c].rt)]_vars

\* one call has refreshed and is retrying with the new access token; the 401
\* branch of another call for the same refresh token, which had sent another
\* access token, has removed the entry the first call wrote
C30_Witness ==
  \E c, d \in Calls :
    /\ c # d
    /\ calls[c].pc = "awaitForced"
    /\ calls[d].pc = "awaitQ2"
    /\ calls[d].rt = calls[c].rt
    /\ calls[d].tresp.access_token = calls[d].auth
    /\ calls[d].auth # calls[c].auth
    /\ calls[c].rt \notin DOMAIN tokenCache

(***************************************************************************)
(* Properties of the normaliser                                            *)
(***************************************************************************)
\* C5: the streaming encoding (one chunk per line) and a one-document encoding
\* of the same result set make executeGAQLQuery return equal row sequences.
\* Stated for result sets that are not empty.
C5_EncodingsAgree ==
  (pin.enc = "stream" /\ pin.rows # <<>> /\ pout.first # NoOut) =>
    \A doc \in {ArrayBody(pin.rows), ResultsBody(pin.rows)} :
      /\ pout.first.kind = "rows"
      /\ ParseSearchResponse(doc).kind = "rows"
      /\ pout.first.rows = ParseSearchResponse(doc).rows

\* what the provider sent in row `sent` is in row `got`
Carries(got, sent) ==
  /\ got.t = "obj"
  /\ got.res = sent.res
  /\ \A key \in DOMAIN sent.f : key \in DOMAIN got.f /\ got.f[key] = sent.f[key]

\* C6: N valid lines (N >= 1), each one row, and one unparseable line at any
\* position give exactly the N rows and a log entry, without failing.
C6_BadLineTolerated ==
  (pin.enc = "badline" /\ pin.rows # <<>> /\ pout.first # NoOut) =>
    /\ pout.first.kind = "rows"
    /\ Len(pout.first.rows) = Len(pin.rows)
    /\ \A i \in 1..Len(pin.rows) : Carries(pout.first.rows[i], pin.rows[i])
    /\ pout.first.logged >= 1

\* the body parses to an array, to an object with a results array, or to an
\* object with a recognised resource key
IsResultSetEncoding(text) ==
  LET p == JSONParse(text) IN
  /\ p.ok
  /\ \/ p.val.t = "arr"
     \/ HasResultsArray(p.val)
     \/ p.val.t = "obj" /\ IsDirectResult(NormalizeKeys(p.val))

\* C7 as stated: a 2xx body that is no recognised encoding of a result set
\* makes executeGAQLQuery fail with a malformed-response error.
C7_UnrecognisedIsMalformed ==
  \A path \in {"first", "retry"} :
    (pout[path] # NoOut /\ ~IsResultSetEncoding(pin.body)) =>
      pout[path].kind = "MalformedResponse"

\* C7 amended: a 2xx body that JSON.parse rejects (the empty body included) or
\* that parses to null makes executeGAQLQuery fail with a malformed-response
\* error; a body that parses to any other value that is no recognised encoding
\* gives an empty row sequence and no error.
C7_UnparseableIsMalformed ==
  \A path \in {"first", "retry"} :
    (pout[path] # NoOut /\ ~IsResultSetEncoding(pin.body)) =>
      IF ~JSONParse(pin.body).ok \/ JSONParse(pin.body).val = JNull
      THEN pout[path].kind = "MalformedResponse" /\ pout[path].rows = <<>>
      ELSE pout[path].kind = "rows" /\ pout[path].rows = <<>>

\* both paths have rejected a body of two documents
C7_Witness ==
  /\ Len(SplitLines(pin.body)) = 2
  /\ ~JSONParse(pin.body).ok
  /\ pout.first.kind = "MalformedResponse"
  /\ pout.retry.kind = "MalformedResponse"

\* C8: a body that is an object with a results array of n rows makes
\* executeGAQLQuery return those n rows in order, none dropped, whatever
\* resource keys they hold, on both paths.  (A key the reconciliation of
\* spellings adds to a row is let through here.)
C8_ResultsReturnedAsIs ==
  \A path \in {"first", "retry"} :
    (pin.enc = "results" /\ pout[path] # NoOut) =>
      /\ pout[path].kind = "rows"
      /\ Len(pout[path].rows) = Len(pin.rows)
      /\ \A i \in 1..Len(pin.rows) : Carries(pout[path].rows[i], pin.rows[i])

RECURSIVE InOrder(_, _)
\* the rows of `got` are rows of `sent`, in the order of `sent`
InOrder(got, sent) ==
  IF got = <<>> THEN TRUE
  ELSE IF sent = <<>> THEN FALSE
  ELSE IF Carries(Head(got), Head(sent)) THEN InOrder(Tail(got), Tail(sent))
  ELSE InOrder(got, Tail(sent))

\* C20: the rows executeGAQLQuery returns for a success body stand in the
\* order in which the body holds them (the order of the array, of the results
\* array, of the chunks and of the rows within each chunk), on both paths.
C20_OrderPreserved ==
  \A path \in {"first", "retry"} :
    (pout[path].kind = "rows" /\ pin.enc \in {"stream", "array", "results", "chunks"}) =>
      InOrder(pout[path].rows, pin.rows)

\* two different rows, one in each of two chunks, were returned on both paths
C20_Witness ==
  /\ pin.enc = "chunks"
  /\ pin.bad = 1
  /\ Len(pin.rows) = 2
  /\ pin.rows[1] # pin.rows[2]
  /\ pout.first.kind = "rows"
  /\ pout.first.rows = pin.rows
  /\ pout.retry.kind = "rows"
  /\ pout.retry.rows = pin.rows

(***************************************************************************)
(* Properties of the outbound query request                                *)
(***************************************************************************)
RECURSIVE IsDashedFormOf(_, _)
\* s is d with dashes written into it
IsDashedFormOf(s, d) ==
  IF s = <<>> THEN d = <<>>
  ELSE IF Head(s) = "-" THEN IsDashedFormOf(Tail(s), d)
  ELSE d # <<>> /\ Head(s) = Head(d) /\ IsDashedFormOf(Tail(s), Tail(d))

\* customer ids in canonical form
UndashedIds == {d \in CustomerIds : d # <<>> /\ \A i \in 1..Len(d) : d[i] \in Digits}

\* C16: a call with a dashed form of a customer id and a call with its
\* undashed form, all other arguments equal, send the same first request and
\* the same retry request (URL, headers, body), the URL holding the undashed
\* id; normalizeCustomerId gives the undashed id for both.
C16_DashedAndUndashedAgree ==
  \A d \in UndashedIds :
    IsDashedFormOf(req.customerId, d) =>
      LET undashed == [req EXCEPT !.customerId = d] IN
      /\ outbound.first # NoOut =>
           /\ outbound.first = FirstRequest(undashed)
           /\ outbound.first.kind = "request" => outbound.first.url.customer = d
      /\ outbound.retry # NoOut =>
           /\ outbound.retry = RetryRequest(undashed)
           /\ outbound.retry.url.customer = d
      /\ outbound.norm # NoOut =>
           /\ outbound.norm = [kind |-> "value", value |-> d]
           /\ normalizeCustomerId(d) = outbound.norm

\* both requests and normalizeCustomerId have run on the id 1-2
C16_Witness ==
  /\ req.customerId = <<"1", "-", "2">>
  /\ outbound.first.kind = "request"
  /\ outbound.retry.kind = "request"
  /\ outbound.retry.url.customer = <<"1", "2">>
  /\ outbound.norm.kind = "value"

\* C17 as stated: the customer id in the URL of each request is the customerId
\* argument without its non-digit characters, so digits only.  Stated for
\* arguments that hold a digit.
C17_UrlDigitsOnly ==
  \A path \in {"first", "retry"} :
    (/\ outbound[path].kind = "request"
     /\ \E i \in 1..Len(req.customerId) : req.customerId[i] \in Digits) =>
      /\ outbound[path].url.customer =
           SelectSeq(req.customerId, LAMBDA ch : ch \in Digits)
      /\ \A i \in 1..Len(outbound[path].url.customer) :
           outbound[path].url.customer[i] \in Digits

\* C17 amended: the customer id in the URL of each request is the customerId
\* argument without its dashes, every other character kept in place; it is
\* digits only when the argument holds nothing but digits and dashes.
C17_UrlWithoutDashes ==
  \A path \in {"first", "retry"} :
    outbound[path].kind = "request" =>
      LET id == outbound[path].url.customer IN
      /\ \A i \in 1..Len(id) : id[i] # "-"
      /\ IsDashedFormOf(req.customerId, id)
      /\ (\A i \in 1..Len(req.customerId) : req.customerId[i] \in Digits \cup {"-"})
           => \A i \in 1..Len(id) : id[i] \in Digits

\* both requests were sent for an id with two dashes and a space: the space
\* is in the URL
C17_Witness ==
  /\ req.customerId = <<"-", " ", "-">>
  /\ outbound.first.kind = "request"
  /\ outbound.first.url.customer = <<" ">>
  /\ outbound.retry.kind = "request"
  /\ outbound.retry.url.customer = <<" ">>

\* C21: the login-customer-id header of the first request and of the retry
\* request is the loginCustomerId argument when given, else the configured
\* manager id, with every character that is no digit removed; when neither is
\* there the request is sent without that header.
C21_LoginCustomerIdHeader ==
  /\ (outbound.first # NoOut
        /\ ~(req.customerId = <<>> \/ req.accessToken = 0 \/ req.query = ""))
       => outbound.first.kind = "request"
  /\ \A path \in {"first", "retry"} :
       outbound[path].kind = "request" =>
         LET headers == outbound[path].headers
             given == IF req.loginCustomerId # <<>> THEN req.loginCustomerId
                      ELSE req.managerId
         IN IF given = <<>> THEN "login-customer-id" \notin DOMAIN headers
            ELSE /\ "login-customer-id" \in DOMAIN headers
                 /\ headers["login-customer-id"] =
                      SelectSeq(given, LAMBDA ch : ch \in Digits)

\* no loginCustomerId was given: both requests went out with the digits of
\* the configured manager id
C21_Witness ==
  /\ outbound.first.kind = "request"
  /\ outbound.retry.kind = "request"
  /\ req.loginCustomerId = <<>>
  /\ req.managerId = <<"7", " ">>
  /\ outbound.first.headers["login-customer-id"] = <<"7">>
  /\ outbound.retry.headers["login-customer-id"] = <<"7">>

(***************************************************************************)
(* Properties of parseSearchStreamChunk                                    *)
(***************************************************************************)
\* the chunk has no results member that is an array
HasNoResultsArray(c) == ~(c.t = "obj" /\ c.res # <<>> /\ c.res[1].t = "arr")

\* the chunk is an object with the key
ContainsKey(c, key) == c.t = "obj" /\ key \in DOMAIN c.f

\* the chunk is an object with a truthy value under the key
HoldsValue(c, key) == ContainsKey(c, key) /\ c.f[key] # 0

\* the alternate spellings of a canonical key
Alternates(key) == {p[2] : p \in {q \in AlternateKeys : q[1] = key}}

\* C18 as stated: for a chunk without a results array the call returns [chunk]
\* iff the chunk holds a recognised key, in either spelling; else it returns
\* the empty sequence; it raises no error.  Stated for chunks other than null.
C18_RecognisedKeyDecides ==
  (parsed.kind = "parsed" /\ HasNoResultsArray(chunk) /\ chunk # JNull) =>
    /\ parsed.out.ok
    /\ parsed.out.rows =
         IF \E key \in RecognizedKeys :
              \/ ContainsKey(chunk, key)
              \/ \E a \in Alternates(key) : ContainsKey(chunk, a)
         THEN <<parsed.chunk>> ELSE <<>>

\* C18 amended: for a chunk without a results array, a null chunk raises an
\* error; for any other chunk the call raises none and returns [chunk] iff one
\* of the recognised keys, in either spelling, holds a truthy value, else the
\* empty sequence.
C18_TruthyKeyDecides ==
  (parsed.kind = "parsed" /\ HasNoResultsArray(chunk)) =>
    IF chunk = JNull THEN ~parsed.out.ok
    ELSE /\ parsed.out.ok
         /\ parsed.out.rows =
              IF \E key \in {"campaign", "ad_group", "ad_group_ad",
                             "customer_client", "metrics"} :
                   \/ HoldsValue(chunk, key)
                   \/ \E a \in Alternates(key) : HoldsValue(chunk, a)
              THEN <<parsed.chunk>> ELSE <<>>

\* a chunk whose only recognised key holds a falsy value gave no row
C18_Witness ==
  /\ parsed.kind = "parsed"
  /\ chunk.t = "obj"
  /\ chunk.res = <<>>
  /\ DOMAIN chunk.f = {"campaign", "customer"}
  /\ chunk.f["campaign"] = 0
  /\ parsed.out.ok
  /\ parsed.out.rows = <<>>

\* every key but the canonical ones is as it was
OtherKeysKept(before, after) ==
  LET canonical == {p[1] : p \in AlternateKeys} IN
  /\ after.res = before.res
  /\ DOMAIN before.f \subseteq DOMAIN after.f
  /\ DOMAIN after.f \subseteq DOMAIN before.f \cup canonical
  /\ \A key \in DOMAIN before.f \ canonical : after.f[key] = before.f[key]

\* C19 as stated: after the call a canonical key holds the alternate key's
\* value if it was absent and the alternate present, and its own value
\* unchanged if it was present; no other key is changed.
C19_CanonicalKeptWhenPresent ==
  (parsed.kind = "parsed" /\ chunk.t = "obj" /\ HasNoResultsArray(chunk)) =>
    /\ OtherKeysKept(chunk, parsed.chunk)
    /\ \A p \in AlternateKeys :
         /\ (~ContainsKey(chunk, p[1]) /\ ContainsKey(chunk, p[2])) =>
              /\ ContainsKey(parsed.chunk, p[1])
              /\ parsed.chunk.f[p[1]] = chunk.f[p[2]]
         /\ ContainsKey(chunk, p[1]) =>
              /\ ContainsKey(parsed.chunk, p[1])
              /\ parsed.chunk.f[p[1]] = chunk.f[p[1]]

\* C19 amended: after the call a canonical key holds the alternate key's value
\* if the alternate held a truthy value and the canonical key was absent or
\* held a falsy one; else it is as it was (absent, or with its own value); no
\* other key is changed.
C19_CanonicalFilledWhenFalsy ==
  (parsed.kind = "parsed" /\ chunk.t = "obj" /\ HasNoResultsArray(chunk)) =>
    /\ OtherKeysKept(chunk, parsed.chunk)
    /\ \A p \in AlternateKeys :
         IF ~HoldsValue(chunk, p[1]) /\ HoldsValue(chunk, p[2])
         THEN /\ ContainsKey(parsed.chunk, p[1])
              /\ parsed.chunk.f[p[1]] = chunk.f[p[2]]
         ELSE /\ ContainsKey(parsed.chunk, p[1]) <=> ContainsKey(chunk, p[1])
              /\ ContainsKey(chunk, p[1]) => parsed.chunk.f[p[1]] = chunk.f[p[1]]

\* a canonical key that held a falsy value now holds the alternate key's value
C19_Witness ==
  /\ parsed.kind = "parsed"
  /\ chunk.t = "obj"
  /\ DOMAIN chunk.f = {"ad_group", "adGroup"}
  /\ chunk.f["ad_group"] = 0
  /\ chunk.f["adGroup"] = 2
  /\ parsed.chunk.f["ad_group"] = 2

(***************************************************************************)
(* Properties of the error logger                                          *)
(***************************************************************************)
Range(seq) == {seq[i] : i \in 1..Len(seq)}

\* some character of the token is not among the characters shown
Hidden(token, shown) == \E i \in 1..Len(token) : token[i] \notin Range(shown)

\* every token-named string field of the object `given`, at any depth, is a
\* string field of `shown` that hides a character of it
RECURSIVE HidesTokens(_, _)
HidesTokens(given, shown) ==
  \A key \in DOMAIN given.f :
    LET v == given.f[key] IN
    IF IsTokenKey(key) /\ v.t = "str" /\ v.s # <<>>
    THEN /\ shown.t = "rec"
         /\ key \in DOMAIN shown.f
         /\ shown.f[key].t = "str"
         /\ Hidden(v.s, shown.f[key].s)
    ELSE IF v.t = "rec"
      THEN shown.t = "rec" /\ key \in DOMAIN shown.f /\ HidesTokens(v, shown.f[key])
    ELSE TRUE

\* C23: the string maskToken returns for a token, and every token-named
\* string field of the details logAndRespond logs and returns, leaves out at
\* least one character of the token, for tokens of every length.
C23_TokenNeverInFull ==
  /\ (emitted.kind = "maskToken" /\ failure.arg.t = "str" /\ failure.arg.s # <<>>)
       => Hidden(failure.arg.s, emitted.value)
  /\ (emitted.kind = "logAndRespond" /\ ErrorDetailsOf(failure.arg).t = "rec") =>
       /\ HidesTokens(JSONCopy(ErrorDetailsOf(failure.arg)), emitted.logged.details)
       /\ HidesTokens(JSONCopy(ErrorDetailsOf(failure.arg)), emitted.returned.details)

(***************************************************************************)
(* Properties of the grouping of the adgroups handler                      *)
(***************************************************************************)
\* the places of the rows that have this ad group id, and this ad id
RowsOfGroup(rows, gid) == {k \in 1..Len(rows) : AdGroupIdOf(rows[k]) = gid}
RowsOfAd(rows, gid, adId) == {k \in RowsOfGroup(rows, gid) : AdIdOf(rows[k]) = adId}

First(places) == CHOOSE k \in places : \A j \in places : k <= j

\* C25: in the response of the adgroups handler no two ad groups have the
\* same id and no two ads of an ad group have the same id; an ad group and an
\* ad are as the first row with that id gives them; every ad group and ad
\* comes from a row that has an ad group id, and every such row's ad group
\* is there; count is the number of ad groups.
C25_GroupedOnce ==
  response.kind = "adgroups" =>
    LET rows == ProcessedRows(grouping)
        flow == grouping.flow = "asset_group"
        groups == response.ad_groups
    IN /\ \A i, j \in 1..Len(groups) : groups[i].id = groups[j].id => i = j
       /\ \A i \in 1..Len(groups) :
            LET g == groups[i] IN
            /\ IsTruthy(g.id)
            /\ RowsOfGroup(rows, g.id) # {}
            /\ g.name = NewAdGroup(rows[First(RowsOfGroup(rows, g.id))], flow).name
            /\ \A a, b \in 1..Len(g.ads) : g.ads[a].id = g.ads[b].id => a = b
            /\ \A a \in 1..Len(g.ads) :
                 /\ IsTruthy(g.ads[a].id)
                 /\ RowsOfAd(rows, g.id, g.ads[a].id) # {}
                 /\ g.ads[a] = NewAd(rows[First(RowsOfAd(rows, g.id, g.ads[a].id))], flow)
       /\ {groups[i].id : i \in 1..Len(groups)}
            = {AdGroupIdOf(rows[k]) : k \in {n \in 1..Len(rows) : IsTruthy(AdGroupIdOf(rows[n]))}}
       /\ response.count = Len(groups)
       /\ response.count = Cardinality({groups[i].id : i \in 1..Len(groups)})

\* two rows name one ad group, once by number and once by string, and the
\* same ad with different names: one ad group with one ad, named by the first
C25_Witness ==
  /\ response.kind = "adgroups"
  /\ grouping.flow = "ad_group_ad"
  /\ Len(grouping.rows) = 2
  /\ Field(Field(grouping.rows[1], "ad_group"), "id") = JNumber(1)
  /\ Field(Field(grouping.rows[2], "ad_group"), "id") = JStr(<<"1">>)
  /\ AdIdOf(grouping.rows[1]) = AdIdOf(grouping.rows[2])
  /\ IsTruthy(AdIdOf(grouping.rows[1]))
  /\ NewAd(grouping.rows[1], FALSE) # NewAd(grouping.rows[2], FALSE)
  /\ response.count = 1
  /\ Len(response.ad_groups[1].ads) = 1
  /\ response.ad_groups[1].ads[1] = NewAd(grouping.rows[1], FALSE)

(***************************************************************************)
(* Properties of the endpoint handlers                                     *)
(***************************************************************************)
\* the request the handler serves lacks a parameter its endpoint requires
LacksRequired(h) ==
  /\ h.endpoint \in Endpoints
  /\ IF h.endpoint = "mcc-accounts" THEN h.query.refresh_token = NoToken
     ELSE h.query.customer_id = <<>> \/ h.query.refresh_token = NoToken

\* the one response, of status 400, to a request that lacks a parameter
Only400(h) ==
  /\ h.pc = "done"
  /\ Len(h.responses) = 1
  /\ h.responses[1].status = 400
  /\ h.sent = 0

\* C24: in the campaigns, adgroups, ads-metrics and mcc-accounts handlers a
\* request that lacks customer_id or refresh_token (refresh_token alone for
\* mcc-accounts) is answered in the step it arrives in with status 400 and
\* one response, no request has been sent to the token endpoint or the query
\* endpoint, the token cache is as it was, and nothing is added afterwards.
C24_MissingParameterAnswered400 ==
  [][/\ (handler'.n = handler.n + 1 /\ LacksRequired(handler')) =>
          /\ Only400(handler')
          /\ tokenCache' = tokenCache
          /\ issued' = issued
     /\ (handler'.n = handler.n /\ LacksRequired(handler)) => handler' = handler]_vars

\* a request lacking a parameter was answered 400 while the cache held a
\* token stored by an earlier request
C24_Witness ==
  /\ LacksRequired(handler)
  /\ Only400(handler)
  /\ handler.n = 2
  /\ DOMAIN tokenCache # {}

====
